---- MODULE Spec2Model ----
(***************************************************************************)
(* Trade lifecycle of the meme-token bot: TradeExecutor (executeBuy,       *)
(* executeSell, _monitorTrades), TradeMonitor (monitorTrade, cleanupTrade) *)
(* and RiskManager (validateTrade, updatePosition, closePosition).         *)
(*                                                                         *)
(* Node.js runs one callback at a time; an async function is cut into      *)
(* segments at its awaits. One action below is one such segment (adjacent  *)
(* segments that touch none of the shared maps are fused into one).        *)
(* Calls through collaborators outside these three classes (market data,   *)
(* swap venue, wallet, trade repository) are inputs: every outcome the     *)
(* call site distinguishes is drawn with \E.                               *)
(*                                                                         *)
(* Units: SOL amounts in 1/1000 SOL, prices in 1/1000, confidence in 1/10, *)
(* price impact in percent, time in milliseconds.                          *)
(***************************************************************************)
EXTENDS Integers, Sequences, FiniteSets, TLC

(* ------------------------------ bounds -------------------------------- *)
\* Spec
NumTokens == 1
NumBuys == 2
NumSells == 1
NumTicks == 2
\* SpecEnter
EnterTokens == 2
EnterBuys == 2
\* SpecDay
DayBuys == 2
DaySells == 2
MaxClockSteps == 2
\* SpecPolicy
PolicyTicks == 2
\* SpecLedger
LedgerBuys == 3
LedgerSells == 2
\* SpecAlert
AlertBuys == 2
AlertSells == 2
\* SpecLive: tokens, and the most sell swaps whose trade record may fail to be saved
LiveTokens == 2
LiveSaveFailures == 2
\* SpecLoop: the most iterations of mainLoop in a row that fail, and the most that find
\* no opportunity
MaxFailures == 7
MaxNoOpportunity == 12
\* the enters of the loop that are followed
MaxEnters == 2
\* Date.now() at the construction of the bot, far more than minTimeBetweenTrades
BootEpoch == 7200000

\* a run of executeSell is started by an outside caller (1, 2, ...) or by the
\* monitoring tick k (-k)
TickSell(k) == -k

(* ------------------------- program constants -------------------------- *)
maxConcurrentTrades == 3
minLiquidity == 100
maxHoldTime == 300000
maxRetries == 3
\* MAX_SLIPPAGE, 0.05, in 1/100000
maxSlippage == 5000
maxPositionSize == 1000
maxDailyLoss == 200
PriceImpactCeiling == 2
DayMs == 86400000
trailingStopPercent == 10
minProfitPercent == 15
maxLossPercent == 10
DefaultGasCost == 1
\* MemeBot: maxRetries, retryDelay and CHECK_INTERVAL_MS
BotMaxRetries == 5
retryDelay == 5000
checkInterval == 30000
minTimeBetweenTrades == 3600000
\* JupiterService: maxRetries and retryDelay
VenueMaxRetries == 3
VenueRetryDelay == 1000

VARIABLES activeKeys, activeTrades, executionLock, riskActiveTrades, dailyStats,
          highestPrices, now, clockSteps, mainLoop, backoff, services, buys, sells, ticks,
          hist

vars == <<activeKeys, activeTrades, executionLock, riskActiveTrades, dailyStats,
          highestPrices, now, clockSteps, mainLoop, backoff, services, buys, sells, ticks,
          hist>>

Range(s) == {s[i] : i \in 1..Len(s)}
Min(a, b) == IF a <= b THEN a ELSE b
Without(s, t) == SelectSeq(s, LAMBDA x : x # t)
IndexOf(s, t) == CHOOSE i \in 1..Len(s) : s[i] = t

(* ------------------------------ inputs -------------------------------- *)
\* the empty string as a token mint
NoMint == 0
\* requested amounts: none, within and above maxPositionSize
Amounts == {0, 500, 2000}
WellFormed(t, amt) == [tokenMint |-> t, tokenSymbol |-> "x", amount |-> amt,
                       strategy |-> "x", entryReason |-> "x"]
\* one malformed signal per field that _validateInputParams inspects, and the well-formed ones
SignalInputs(T) == {WellFormed(t, a) : t \in T, a \in Amounts \ {0}}
                \cup {[WellFormed(1, 500) EXCEPT !.tokenMint = NoMint],
                      [WellFormed(1, 500) EXCEPT !.tokenSymbol = ""],
                      [WellFormed(1, 500) EXCEPT !.amount = 0],
                      [WellFormed(1, 500) EXCEPT !.amount = -500],
                      [WellFormed(1, 500) EXCEPT !.strategy = ""],
                      [WellFormed(1, 500) EXCEPT !.entryReason = ""]}

\* what marketAnalyzer.getTokenMetrics hands back: a snapshot, nothing, or an exception
Snapshots == [liquidity : {50, 200}, priceImpact : {1, 3}]
NoSnapshot == [liquidity |-> -1, priceImpact |-> -1]
Thrown == [liquidity |-> -2, priceImpact |-> -2]
MetricsOutcomes == Snapshots \cup {NoSnapshot, Thrown}

\* market analysis and technical indicators
Analyses == [condition : {"bullish", "bearish", "neutral"}, confidence : {5, 8},
             rsi : {25, 50, 75}, histogram : {-1, 1}, aligned : BOOLEAN,
             volumeTrend : {"increasing", "decreasing", "stable"}]
\* the analyses SpecEnter draws from: every branch of _validateEntryConditions
EnterAnalyses == {a \in Analyses : /\ a.volumeTrend = "stable"
                                   /\ <<a.condition, a.confidence>> \in
                                          {<<"neutral", 5>>, <<"bearish", 8>>}}
WalletBalances == {0, 5000}

\* what _executeOrder hands back for a buy: a fill, a fill lacking the price or the
\* transaction id, or an exception
Fill(p, tx) == [price |-> p, txId |-> tx, threw |-> FALSE]
OrderThrown == [price |-> 0, txId |-> FALSE, threw |-> TRUE]
BuyOrderOutcomes == {Fill(1000, TRUE), Fill(0, TRUE), Fill(1000, FALSE), OrderThrown}

(* ------------------------------- state -------------------------------- *)
NoTrade == [entryPrice |-> 0, solIn |-> 0, entryTime |-> 0]
NoRisk == [entryPrice |-> 0, amount |-> 0, timestamp |-> 0]
NoPrice == 0

\* a call of executeBuy: where it stands, its parameters and locals (i, lastError: the
\* retry loop, slept: the timeout the last pass of that loop waited for; priceImpact: of
\* the snapshot; size: positionSize; slippage: of the order), how it ended (res, how,
\* reasons), passed: the checks this call has got through so far, and wallet: how
\* hasSufficientBalance settled for it
IdleBuy == [pc |-> "idle", token |-> NoMint, amount |-> 0, i |-> 0, lastError |-> 0,
            slept |-> 0, priceImpact |-> 0, size |-> 0, slippage |-> 0, res |-> "none",
            how |-> "none",
            reasons |-> << >>, passed |-> {}, wallet |-> "none"]

\* mutant: no trade is ever found active
HasNever(t) == FALSE
Has(t) == t \in Range(activeKeys)
LockHas(t) == t \in executionLock

\* a run of executeSell: the token and exit reason it was called with, the solIn of the
\* trade it read, the pnl it computed
IdleSell == [pc |-> "idle", token |-> NoMint, exitReason |-> "none", solIn |-> 0, pnl |-> 0,
             res |-> "none", how |-> "none"]
\* a run of _monitorTrades: cursor is the place of the Map iterator in activeKeys, trade
\* the entry it handed out, price and highest the locals of monitorTrade (price lives on
\* in the decision while executeSell runs)
IdleTick == [pc |-> "idle", cursor |-> 0, token |-> NoMint, trade |-> NoTrade,
             price |-> 0, highest |-> 0]
\* MemeBot: running, retryCount and noOpportunityCount are its fields, pc the place of
\* mainLoop, delay the timeout it sleeps on; failures counts the iterations that have
\* failed in a row, fatalAlert tells that the 'Max retries reached' alert was sent;
\* currentTime is the local of the iteration, lastTradeTime the field; enters counts the
\* calls of executeBuy that came back with a position, lastEnter is the currentTime of
\* the last of them
IdleLoop == [pc |-> "idle", running |-> FALSE, retryCount |-> 0, noOpportunityCount |-> 0,
             delay |-> 0, failures |-> 0, fatalAlert |-> FALSE, currentTime |-> 0,
             lastTradeTime |-> 0, enters |-> 0, lastEnter |-> -1]

Tokens == DOMAIN activeTrades
BuyCalls == DOMAIN buys
TickCalls == DOMAIN ticks
SellRuns == DOMAIN sells
SellCalls == {s \in SellRuns : s > 0}

\* history: per token the positions opened, the sell swaps done, the trade records handed
\* to the repository, the pnl folded into dailyStats, and the highest price recorded for
\* the position now open
HistInit(T) == [opened |-> [t \in T |-> 0], swapped |-> [t \in T |-> 0],
                handed |-> [t \in T |-> 0], folded |-> [t \in T |-> 0],
                high |-> [t \in T |-> NoPrice]]

\* the state after the constructors, for nt tokens and nb, ns, nk calls of executeBuy,
\* executeSell (from outside) and _monitorTrades
InitWith(nt, nb, ns, nk) ==
    /\ activeKeys = << >>
    /\ activeTrades = [t \in 1..nt |-> NoTrade]
    /\ executionLock = {}
    /\ riskActiveTrades = [t \in 1..nt |-> NoRisk]
    /\ dailyStats = [totalTrades |-> 0, winningTrades |-> 0, totalPnL |-> 0, lastReset |-> 0]
    /\ highestPrices = [t \in 1..nt |-> NoPrice]
    /\ now = 0
    /\ clockSteps = 0
    /\ buys = [c \in 1..nb |-> IdleBuy]
    /\ sells = [s \in (1..ns) \cup {-k : k \in 1..nk} |-> IdleSell]
    /\ ticks = [k \in 1..nk |-> IdleTick]
    /\ hist = HistInit(1..nt)
    /\ mainLoop = IdleLoop
    /\ backoff = [pc |-> "idle", retryCount |-> 0, calls |-> 0, delays |-> << >>,
                  res |-> "none"]
    /\ services = [walletInitialized |-> FALSE, jupiterInitialized |-> FALSE,
                   called |-> "none", res |-> "none"]


(* ----------------------------- executeBuy ----------------------------- *)
\* mutant: the entry reason is not looked at
ValidateInputParamsNoReason(p) ==
    /\ p.tokenMint # NoMint
    /\ p.tokenSymbol # ""
    /\ p.amount > 0
    /\ p.strategy # ""
ValidateInputParams(p) ==
    /\ p.tokenMint # NoMint
    /\ p.tokenSymbol # ""
    /\ p.amount > 0
    /\ p.strategy # ""
    /\ p.entryReason # ""

\* the call is over: its promise is settled with res, raised or returned
Settled(b, res, how) ==
    [b EXCEPT !.pc = "done", !.res = res, !.how = how, !.amount = 0, !.i = 0,
              !.lastError = 0, !.slept = 0, !.priceImpact = 0, !.size = 0,
              !.slippage = 0]
\* a throw inside the try block: the catch awaits sendErrorAlert before it rethrows
Caught(b, res) ==
    [b EXCEPT !.pc = "errAlert", !.res = res, !.amount = 0, !.i = 0, !.priceImpact = 0,
              !.size = 0, !.slippage = 0]

\* the slots of a kind are taken in order
NextIdle(calls, c) == calls[c].pc = "idle" /\ (c > 1 => calls[c - 1].pc # "idle")

\* mutant: the lock is never found taken
LockFreeAlways(t) == TRUE
\* the lock check of executeBuy
LockFree(t) == ~LockHas(t)

\* executeBuy up to its first await: parameter validation, lock, duplicate and capacity
BuyStart(c, p) ==
    /\ NextIdle(buys, c)
    /\ LET b == [IdleBuy EXCEPT !.token = p.tokenMint, !.amount = p.amount] IN
       IF ~ValidateInputParams(p)
       THEN /\ buys' = [buys EXCEPT ![c] = Settled(b, "ValidationError", "raised")]
            /\ UNCHANGED executionLock
       ELSE IF ~LockFree(p.tokenMint)
       THEN /\ buys' = [buys EXCEPT ![c] = Settled(b, "LockConflict", "raised")]
            /\ UNCHANGED executionLock
       ELSE /\ executionLock' = executionLock \cup {p.tokenMint}
            /\ buys' = [buys EXCEPT ![c] =
                   IF Has(p.tokenMint)
                   THEN Caught([b EXCEPT !.passed = {"lock"}], "DuplicatePosition")
                   ELSE IF Len(activeKeys) >= maxConcurrentTrades
                   THEN Caught([b EXCEPT !.passed = {"lock", "duplicate"}],
                               "CapacityExceeded")
                   ELSE [b EXCEPT !.pc = "metrics",
                                  !.passed = {"lock", "duplicate", "capacity"}]]
    /\ UNCHANGED <<activeKeys, activeTrades, riskActiveTrades, dailyStats, highestPrices,
                   now, clockSteps, mainLoop, sells, ticks, hist, backoff, services>>

\* one pass of the retry loop of _getMarketMetricsWithRetry / _executeOrderWithRetry that
\* ended without a result: the loop counter moves on, a caught exception is remembered
\* and the catch block sleeps 1000 * (i + 1) ms; a result that is not truthy goes round
\* without a sleep; the loop is exhausted when the counter reaches maxRetries
Retried(b, threw) ==
    [b EXCEPT !.i = b.i + 1, !.lastError = IF threw THEN b.i + 1 ELSE b.lastError,
              !.slept = IF threw THEN 1000 * (b.i + 1) ELSE 0]
Exhausted(b) == b.i >= maxRetries

\* reasons.push(r) under its if
Push(reasons, violated, r) == IF violated THEN Append(reasons, r) ELSE reasons

\* mutant: the checks after the first violated one are skipped
ValidateTradeShortCircuit(t, amount, answered, hasBalance, priceImpact) ==
    IF ~answered THEN <<"failed">>
    ELSE IF ~hasBalance THEN <<"balance">>
    ELSE IF amount > maxPositionSize THEN <<"size">>
    ELSE IF riskActiveTrades[t] # NoRisk THEN <<"duplicate">>
    ELSE IF dailyStats.totalPnL < -maxDailyLoss THEN <<"dailyLoss">>
    ELSE IF priceImpact > PriceImpactCeiling THEN <<"priceImpact">>
    ELSE << >>
\* RiskManager.validateTrade: the reasons list once hasSufficientBalance has settled;
\* answered = FALSE is an exception of the wallet, which the catch block turns into the
\* one reason 'Trade validation failed'
ValidateTrade(t, amount, answered, hasBalance, priceImpact) ==
    IF ~answered THEN <<"failed">>
    ELSE Push(Push(Push(Push(Push(<< >>,
            ~hasBalance, "balance"),
            amount > maxPositionSize, "size"),
            riskActiveTrades[t] # NoRisk, "duplicate"),
            dailyStats.totalPnL < -maxDailyLoss, "dailyLoss"),
            priceImpact > PriceImpactCeiling, "priceImpact")

\* mutant: the verdict ignores the reasons
IsValidAlways(reasons) == TRUE
\* isValid of validateTrade's answer
IsValid(reasons) == Len(reasons) = 0

ValidateEntryConditions(a) ==
    IF a.condition = "bearish" /\ a.confidence > 7 THEN FALSE
    ELSE IF a.rsi > 70 THEN FALSE
    ELSE IF a.rsi < 30 THEN TRUE
    ELSE IF a.histogram < 0 THEN FALSE
    ELSE a.aligned

\* sizeMultiplier in 1/1000: confidence (1/10) x RSI factor (1/10) x MACD factor (1/10)
SizeMultiplier(a) ==
    a.confidence * (IF a.rsi < 30 THEN 12 ELSE IF a.rsi > 70 THEN 8 ELSE 10)
                 * (IF a.histogram > 0 THEN 11 ELSE 9)
\* mutant: the size is not clamped
CalculatePositionSizeUnclamped(amount, a) ==
    (amount * SizeMultiplier(a)) \div 1000
CalculatePositionSize(amount, a) ==
    Min((amount * SizeMultiplier(a)) \div 1000, maxPositionSize)

\* the retry loop of _getMarketMetricsWithRetry answers; on a snapshot executeBuy checks
\* the liquidity and calls validateTrade, which awaits the wallet
BuyMetrics(c, m) ==
    /\ buys[c].pc = "metrics"
    /\ LET b == buys[c] IN
       buys' = [buys EXCEPT ![c] =
          IF m \in {NoSnapshot, Thrown}
          THEN LET r == Retried(b, m = Thrown) IN
               IF Exhausted(r) THEN Caught(r, "SnapshotUnavailable") ELSE r
          ELSE IF m.liquidity < minLiquidity THEN Caught(b, "InsufficientLiquidity")
          ELSE [b EXCEPT !.pc = "balance", !.priceImpact = m.priceImpact, !.i = 0,
                         !.lastError = 0, !.slept = 0, !.passed = @ \cup {"liquidity"}]]
    /\ UNCHANGED <<activeKeys, activeTrades, executionLock, riskActiveTrades, dailyStats,
                   highestPrices, now, clockSteps, mainLoop, sells, ticks, hist, backoff,
                   services>>

\* validateTrade after hasSufficientBalance settled, and executeBuy's isValid check
BuyValidate(c, answered, hasBalance) ==
    /\ buys[c].pc = "balance"
    /\ LET b == buys[c]
           reasons == ValidateTrade(b.token, b.amount, answered, hasBalance, b.priceImpact)
           w == IF ~answered THEN "threw" ELSE IF hasBalance THEN "yes" ELSE "no" IN
       buys' = [buys EXCEPT ![c] =
          IF ~IsValid(reasons)
          THEN Caught([b EXCEPT !.reasons = reasons, !.wallet = w], "RiskRejection")
          ELSE [b EXCEPT !.pc = "analysis", !.priceImpact = 0, !.wallet = w,
                         !.passed = @ \cup (IF reasons = << >> THEN {"risk"} ELSE {})]]
    /\ UNCHANGED <<activeKeys, activeTrades, executionLock, riskActiveTrades, dailyStats,
                   highestPrices, now, clockSteps, mainLoop, sells, ticks, hist, backoff,
                   services>>

\* mutant: the tolerance is not clamped
CalculateDynamicSlippageUnclamped(a) ==
    (maxSlippage
       * (IF a.condition = "bullish" /\ a.confidence > 7 THEN 12
          ELSE IF a.condition = "bearish" THEN 8 ELSE 10)
       * (IF a.volumeTrend = "increasing" THEN 11
          ELSE IF a.volumeTrend = "decreasing" THEN 9 ELSE 10)) \div 100
\* _calculateDynamicSlippage: maxSlippage x condition factor (1/10) x volume factor (1/10),
\* no more than maxSlippage
CalculateDynamicSlippage(a) ==
    Min((maxSlippage
           * (IF a.condition = "bullish" /\ a.confidence > 7 THEN 12
              ELSE IF a.condition = "bearish" THEN 8 ELSE 10)
           * (IF a.volumeTrend = "increasing" THEN 11
              ELSE IF a.volumeTrend = "decreasing" THEN 9 ELSE 10)) \div 100,
        maxSlippage)

\* market analysis, entry conditions, position size and wallet balance, and the slippage
\* of the order that follows; answered = FALSE
\* is an exception of getMarketCondition, getTechnicalIndicators or getBalance
BuyAnalysis(c, answered, a, balance) ==
    /\ buys[c].pc = "analysis"
    /\ LET b == buys[c]
           size == CalculatePositionSize(b.amount, a) IN
       buys' = [buys EXCEPT ![c] =
          IF ~answered THEN Caught(b, "AnalysisFailed")
          ELSE IF ~ValidateEntryConditions(a) THEN Caught(b, "EntryConditions")
          ELSE IF balance < size THEN Caught(b, "InsufficientBalance")
          ELSE [b EXCEPT !.pc = "order", !.size = size, !.i = 0, !.lastError = 0,
                         !.slept = 0, !.slippage = CalculateDynamicSlippage(a)]]
    /\ UNCHANGED <<activeKeys, activeTrades, executionLock, riskActiveTrades, dailyStats,
                   highestPrices, now, clockSteps, mainLoop, sells, ticks, hist, backoff,
                   services>>

\* Map.set keeps the place of a key it already holds
SetKey(keys, t) == IF t \in Range(keys) THEN keys ELSE Append(keys, t)

\* mutant: the result of the order is not verified
VerifiedUnseen(o) == ~o.threw
\* the verification of the execution result
Verified(o) == ~o.threw /\ o.price # 0 /\ o.txId

\* one attempt of _executeOrderWithRetry answers; on a result executeBuy verifies it,
\* stores the trade and registers it with the risk manager
BuyOrder(c, o) ==
    /\ buys[c].pc = "order"
    /\ LET b == buys[c]
           t == b.token
           valid == Verified(o) IN
       /\ buys' = [buys EXCEPT ![c] =
             IF o.threw
             THEN LET r == Retried(b, TRUE) IN
                  IF Exhausted(r) THEN Caught(r, "ExecutionFailed") ELSE r
             ELSE IF ~valid THEN Caught(b, "InvalidResult")
             ELSE [b EXCEPT !.pc = "registered", !.amount = 0, !.i = 0, !.lastError = 0,
                            !.slept = 0, !.size = 0, !.slippage = 0]]
       /\ hist' = [hist EXCEPT !.opened[t] = IF valid THEN @ + 1 ELSE @]
       /\ IF valid
          THEN /\ activeKeys' = SetKey(activeKeys, t)
               /\ activeTrades' = [activeTrades EXCEPT ![t] =
                      [entryPrice |-> o.price, solIn |-> b.size, entryTime |-> now]]
               /\ riskActiveTrades' = [riskActiveTrades EXCEPT ![t] =
                      [entryPrice |-> o.price, amount |-> b.size, timestamp |-> now]]
          ELSE UNCHANGED <<activeKeys, activeTrades, riskActiveTrades>>
    /\ UNCHANGED <<executionLock, dailyStats, highestPrices, now, clockSteps, mainLoop,
                   sells, ticks, backoff, services>>

\* mutant: the lock entry is left behind
ReleaseLockForgotten(t) == executionLock
\* the finally block of executeBuy
ReleaseLock(t) == executionLock \ {t}

\* the awaited sendTradeAlert settles: delivered, return tradeInfo, finally; rejected,
\* the catch block takes over with the lock still set
BuyFinish(c, delivered) ==
    /\ buys[c].pc = "registered"
    /\ IF delivered
       THEN /\ buys' = [buys EXCEPT ![c] = Settled(buys[c], "Success", "returned")]
            /\ executionLock' = ReleaseLock(buys[c].token)
       ELSE /\ buys' = [buys EXCEPT ![c] = Caught(buys[c], "AlertFailed")]
            /\ UNCHANGED executionLock
    /\ UNCHANGED <<activeKeys, activeTrades, riskActiveTrades, dailyStats, highestPrices,
                   now, clockSteps, mainLoop, sells, ticks, hist, backoff, services>>

\* after the error alert of the catch block: rethrow, finally
BuyFail(c) ==
    /\ buys[c].pc = "errAlert"
    /\ buys' = [buys EXCEPT ![c] = Settled(buys[c], buys[c].res, "raised")]
    /\ executionLock' = ReleaseLock(buys[c].token)
    /\ UNCHANGED <<activeKeys, activeTrades, riskActiveTrades, dailyStats, highestPrices,
                   now, clockSteps, mainLoop, sells, ticks, hist, backoff, services>>

(* ----------------------------- RiskManager ---------------------------- *)
\* mutant: the stats are reset from 24h on
UpdateDailyStatsAtWindow(ds, isWin) ==
    LET r == IF now - ds.lastReset >= DayMs
             THEN [totalTrades |-> 0, winningTrades |-> 0, totalPnL |-> 0, lastReset |-> now]
             ELSE ds
    IN [r EXCEPT !.totalTrades = @ + 1, !.winningTrades = IF isWin THEN @ + 1 ELSE @]
UpdateDailyStats(ds, isWin) ==
    LET r == IF now - ds.lastReset > DayMs
             THEN [totalTrades |-> 0, winningTrades |-> 0, totalPnL |-> 0, lastReset |-> now]
             ELSE ds
    IN [r EXCEPT !.totalTrades = @ + 1, !.winningTrades = IF isWin THEN @ + 1 ELSE @]

\* closePosition: dailyStats after updateDailyStats(pnl > 0) and totalPnL += pnl
ClosePosition(ds, pnl) == [UpdateDailyStats(ds, pnl > 0) EXCEPT !.totalPnL = @ + pnl]

(* ----------------------------- executeSell ---------------------------- *)
\* what tokenMonitor.getTokenMetrics hands back: metrics, or nothing / an exception
SellMetricsOutcomes == BOOLEAN
\* what _executeOrder hands back for a sell: the SOL received, or an exception
SellThrown == -1
SellOrderOutcomes == {0, 400, SellThrown}
SaveOutcomes == BOOLEAN

\* mutant: the catch block rethrows, as that of executeBuy does
SellSettledRethrows(r, res) ==
    [r EXCEPT !.pc = "done", !.res = res, !.solIn = 0, !.pnl = 0, !.exitReason = "none",
              !.how = IF res = "Success" THEN "returned" ELSE "raised"]
\* executeSell returns: {success: true} at its end, {success: false} from its catch block
SellSettled(r, res) ==
    [r EXCEPT !.pc = "done", !.res = res, !.how = "returned", !.solIn = 0, !.pnl = 0,
              !.exitReason = "none"]
\* a throw inside the try block of executeSell: the catch awaits sendErrorAlert
SellCaught(r, res) == [r EXCEPT !.pc = "errAlert", !.res = res, !.solIn = 0, !.pnl = 0]

\* mutant: the active trade is read and not tested
SellBeginUnchecked(t, exitReason) ==
    [IdleSell EXCEPT !.token = t, !.exitReason = exitReason, !.pc = "metrics",
                     !.solIn = activeTrades[t].solIn]
\* executeSell up to its first await: the active trade is read
SellBegin(t, exitReason) ==
    LET r == [IdleSell EXCEPT !.token = t, !.exitReason = exitReason] IN
    IF ~Has(t) THEN SellCaught(r, "NotFound")
    ELSE [r EXCEPT !.pc = "metrics", !.solIn = activeTrades[t].solIn]

\* Map.delete under live iterators: an iterator that has passed the entry stays on the
\* entry it handed out last
DeleteKey(t) ==
    /\ activeKeys' = Without(activeKeys, t)
    /\ activeTrades' = [activeTrades EXCEPT ![t] = NoTrade]
    /\ ticks' = [k \in TickCalls |->
          IF Has(t) /\ IndexOf(activeKeys, t) <= ticks[k].cursor
          THEN [ticks[k] EXCEPT !.cursor = @ - 1] ELSE ticks[k]]

\* executeSell called from outside
SellStart(s, t) ==
    /\ s \in SellCalls
    /\ NextIdle(sells, s)
    /\ sells' = [sells EXCEPT ![s] = SellBegin(t, "requested")]
    /\ UNCHANGED <<activeKeys, activeTrades, executionLock, riskActiveTrades, dailyStats,
                   highestPrices, now, clockSteps, mainLoop, buys, ticks, hist, backoff,
                   services>>

\* the token metrics answer; then the market condition, then _executeOrder is called
SellMetrics(s, ok) ==
    /\ sells[s].pc = "metrics"
    /\ sells' = [sells EXCEPT ![s] =
          IF ok THEN [@ EXCEPT !.pc = "swap"] ELSE SellCaught(@, "SnapshotUnavailable")]
    /\ UNCHANGED <<activeKeys, activeTrades, executionLock, riskActiveTrades, dailyStats,
                   highestPrices, now, clockSteps, mainLoop, buys, ticks, hist, backoff,
                   services>>

\* the swap answers; the pnl is computed and the complete trade handed to saveTrade
SellSwap(s, out) ==
    /\ sells[s].pc = "swap"
    /\ LET r == sells[s] IN
       IF out = SellThrown
       THEN /\ sells' = [sells EXCEPT ![s] = SellCaught(r, "ExecutionFailed")]
            /\ UNCHANGED hist
       ELSE /\ sells' = [sells EXCEPT ![s] = [r EXCEPT !.pc = "save", !.pnl = out - r.solIn]]
            /\ hist' = [hist EXCEPT !.swapped[r.token] = @ + 1, !.handed[r.token] = @ + 1]
    /\ UNCHANGED <<activeKeys, activeTrades, executionLock, riskActiveTrades, dailyStats,
                   highestPrices, now, clockSteps, mainLoop, buys, ticks, backoff,
                   services>>

\* saveTrade answers; on success riskManager.closePosition runs
SellSave(s, ok) ==
    /\ sells[s].pc = "save"
    /\ LET r == sells[s] IN
       IF ~ok
       THEN /\ sells' = [sells EXCEPT ![s] = SellCaught(r, "PersistenceError")]
            /\ UNCHANGED <<riskActiveTrades, dailyStats, hist>>
       ELSE /\ sells' = [sells EXCEPT ![s] = [r EXCEPT !.pc = "close", !.pnl = 0]]
            /\ riskActiveTrades' = [riskActiveTrades EXCEPT ![r.token] = NoRisk]
            /\ dailyStats' = ClosePosition(dailyStats, r.pnl)
            /\ hist' = [hist EXCEPT !.folded[r.token] = @ + 1]
    /\ UNCHANGED <<activeKeys, activeTrades, executionLock, highestPrices, now, clockSteps,
                   mainLoop, buys, ticks, backoff, services>>

\* after the await of closePosition: the trade is deleted and the trade alert sent
SellClose(s) ==
    /\ sells[s].pc = "close"
    /\ sells' = [sells EXCEPT ![s] = [@ EXCEPT !.pc = "alert"]]
    /\ DeleteKey(sells[s].token)
    /\ hist' = [hist EXCEPT !.high[sells[s].token] = NoPrice]
    /\ UNCHANGED <<executionLock, riskActiveTrades, dailyStats, highestPrices, now,
                   clockSteps, mainLoop, buys, backoff, services>>

\* the awaited sendTradeAlert settles: delivered, return {success: true}; rejected, the
\* catch block takes over
SellFinish(s, delivered) ==
    /\ sells[s].pc = "alert"
    /\ sells' = [sells EXCEPT ![s] =
          IF delivered THEN SellSettled(@, "Success") ELSE SellCaught(@, "AlertFailed")]
    /\ UNCHANGED <<activeKeys, activeTrades, executionLock, riskActiveTrades, dailyStats,
                   highestPrices, now, clockSteps, mainLoop, buys, ticks, hist, backoff,
                   services>>

\* after the error alert of the catch block: return {success: false}
SellFail(s) ==
    /\ sells[s].pc = "errAlert"
    /\ sells' = [sells EXCEPT ![s] = SellSettled(@, @.res)]
    /\ UNCHANGED <<activeKeys, activeTrades, executionLock, riskActiveTrades, dailyStats,
                   highestPrices, now, clockSteps, mainLoop, buys, ticks, hist, backoff,
                   services>>

(* ------------------------- JavaScript numbers -------------------------- *)
\* The prices, thresholds and amounts of monitorTrade are JavaScript numbers: IEEE-754
\* doubles, every operation rounded to the nearest double with 53 significant bits,
\* ties to even. A natural number is held as its limbs to the base Limb, lowest first,
\* without leading zero limbs; a double as sign, 53-bit significand m and exponent e
\* (value m * 2^e), zero as the empty significand. The exponent range is not modelled:
\* the values of monitorTrade stay far from overflow and from the subnormals.
Limb == 16384
LimbBits == 14
MantBits == 53

RECURSIVE Pow2(_)
Pow2(k) == IF k = 0 THEN 1 ELSE 2 * Pow2(k - 1)

RECURSIVE BigNorm(_)
BigNorm(a) == IF a # << >> /\ a[Len(a)] = 0 THEN BigNorm(SubSeq(a, 1, Len(a) - 1)) ELSE a

BigOfInt(n) == BigNorm(<<n % Limb, (n \div Limb) % Limb, n \div (Limb * Limb)>>)

Digit(a, i) == IF i <= Len(a) THEN a[i] ELSE 0

RECURSIVE BigAddFrom(_, _, _, _)
BigAddFrom(a, b, i, carry) ==
    IF i > Len(a) /\ i > Len(b)
    THEN IF carry = 0 THEN << >> ELSE <<carry>>
    ELSE LET s == Digit(a, i) + Digit(b, i) + carry IN
         <<s % Limb>> \o BigAddFrom(a, b, i + 1, s \div Limb)
BigAdd(a, b) == BigAddFrom(a, b, 1, 0)

\* a - b for a >= b
RECURSIVE BigSubFrom(_, _, _, _)
BigSubFrom(a, b, i, borrow) ==
    IF i > Len(a) THEN << >>
    ELSE LET d == a[i] - Digit(b, i) - borrow IN
         <<IF d < 0 THEN d + Limb ELSE d>> \o BigSubFrom(a, b, i + 1, IF d < 0 THEN 1 ELSE 0)
BigSub(a, b) == BigNorm(BigSubFrom(a, b, 1, 0))

\* -1, 0, 1 as a is below, equal to, above b
RECURSIVE BigCmpFrom(_, _, _)
BigCmpFrom(a, b, i) ==
    IF i = 0 THEN 0
    ELSE IF a[i] < b[i] THEN -1
    ELSE IF a[i] > b[i] THEN 1
    ELSE BigCmpFrom(a, b, i - 1)
BigCmp(a, b) ==
    IF Len(a) < Len(b) THEN -1
    ELSE IF Len(a) > Len(b) THEN 1
    ELSE BigCmpFrom(a, b, Len(a))

\* a * k for 0 <= k < Limb
RECURSIVE BigMulSmallFrom(_, _, _, _)
BigMulSmallFrom(a, k, i, carry) ==
    IF i > Len(a)
    THEN IF carry = 0 THEN << >> ELSE <<carry>>
    ELSE LET s == a[i] * k + carry IN
         <<s % Limb>> \o BigMulSmallFrom(a, k, i + 1, s \div Limb)
BigMulSmall(a, k) == BigNorm(BigMulSmallFrom(a, k, 1, 0))

RECURSIVE BigMulFrom(_, _, _)
BigMulFrom(a, b, i) ==
    IF i > Len(b) THEN << >>
    ELSE BigAdd(BigMulSmall(a, b[i]), <<0>> \o BigMulFrom(a, b, i + 1))
BigMul(a, b) == BigNorm(BigMulFrom(a, b, 1))

\* floor(a / k) and a mod k for 0 < k < Limb, the quotient's limbs highest first
RECURSIVE BigDivSmallFrom(_, _, _, _)
BigDivSmallFrom(a, k, i, rem) ==
    IF i = 0 THEN [q |-> << >>, r |-> rem]
    ELSE LET cur == rem * Limb + a[i]
             rest == BigDivSmallFrom(a, k, i - 1, cur % k) IN
         [q |-> rest.q \o <<cur \div k>>, r |-> rest.r]
BigDivSmall(a, k) ==
    LET d == BigDivSmallFrom(a, k, Len(a), 0) IN [q |-> BigNorm(d.q), r |-> d.r]

Zeros(n) == [i \in 1..n |-> 0]
\* a * 2^k
BigShl(a, k) ==
    IF a = << >> THEN << >>
    ELSE Zeros(k \div LimbBits) \o BigMulSmall(a, Pow2(k % LimbBits))
\* floor(a / 2^k)
BigShr(a, k) ==
    IF k \div LimbBits >= Len(a) THEN << >>
    ELSE BigDivSmall(SubSeq(a, k \div LimbBits + 1, Len(a)), Pow2(k % LimbBits)).q

RECURSIVE IntBits(_)
IntBits(n) == IF n = 0 THEN 0 ELSE 1 + IntBits(n \div 2)
BitLen(a) == IF a = << >> THEN 0 ELSE LimbBits * (Len(a) - 1) + IntBits(a[Len(a)])
BigOdd(a) == a # << >> /\ a[1] % 2 = 1

FZero == [neg |-> FALSE, m |-> << >>, e |-> 0]
\* the double nearest to x * 2^e (sticky: the true value lies above x * 2^e by less than
\* one unit of x), ties to even
FRound(neg, x, e, sticky) ==
    LET n == BitLen(x) IN
    IF x = << >> THEN FZero
    ELSE IF n <= MantBits THEN [neg |-> neg, m |-> BigShl(x, MantBits - n), e |-> e - (MantBits - n)]
    ELSE LET sh == n - MantBits
             q == BigShr(x, sh)
             r == BigSub(x, BigShl(q, sh))
             half == BigCmp(r, BigShl(<<1>>, sh - 1))
             up == half > 0 \/ (half = 0 /\ (sticky \/ BigOdd(q)))
             m == IF up THEN BigAdd(q, <<1>>) ELSE q IN
         IF BitLen(m) > MantBits
         THEN [neg |-> neg, m |-> BigShr(m, 1), e |-> e + sh + 1]
         ELSE [neg |-> neg, m |-> m, e |-> e + sh]

\* the double of the literal n / d, for naturals n and 0 < d < Limb
FRatio(n, d) ==
    LET qr == BigDivSmall(BigShl(BigOfInt(n), 70), d) IN FRound(FALSE, qr.q, -70, qr.r # 0)
FNeg(a) == IF a.m = << >> THEN a ELSE [a EXCEPT !.neg = ~a.neg]

\* a + b
FAdd(a, b) ==
    IF a.m = << >> THEN b
    ELSE IF b.m = << >> THEN a
    ELSE LET e == IF a.e <= b.e THEN a.e ELSE b.e
             xa == BigShl(a.m, a.e - e)
             xb == BigShl(b.m, b.e - e)
             c == BigCmp(xa, xb) IN
         IF a.neg = b.neg THEN FRound(a.neg, BigAdd(xa, xb), e, FALSE)
         ELSE IF c = 0 THEN FZero
         ELSE IF c > 0 THEN FRound(a.neg, BigSub(xa, xb), e, FALSE)
         ELSE FRound(b.neg, BigSub(xb, xa), e, FALSE)
FSub(a, b) == FAdd(a, FNeg(b))
FMul(a, b) ==
    IF a.m = << >> \/ b.m = << >> THEN FZero
    ELSE FRound(a.neg # b.neg, BigMul(a.m, b.m), a.e + b.e, FALSE)

\* r / d (r < 2 * d) bit by bit: q is a leading 1 followed by the bits found so far;
\* the result is q once it has n bits behind that 1, and what is left of r
RECURSIVE LongDiv(_, _, _, _)
LongDiv(r, d, q, n) ==
    IF BitLen(q) > n THEN [q |-> BigSub(q, BigShl(<<1>>, n)), r |-> r]
    ELSE LET ge == BigCmp(r, d) >= 0
             r1 == IF ge THEN BigSub(r, d) ELSE r IN
         LongDiv(BigAdd(r1, r1), d, BigAdd(BigAdd(q, q), IF ge THEN <<1>> ELSE << >>), n)
\* a / b for b # 0
FDiv(a, b) ==
    IF a.m = << >> THEN FZero
    ELSE LET d == LongDiv(a.m, b.m, <<1>>, MantBits + 3) IN
         FRound(a.neg # b.neg, d.q, a.e - b.e - (MantBits + 2), d.r # << >>)

\* -1, 0, 1 as a is below, equal to, above b
FCmpMag(a, b) ==
    IF a.m = << >> THEN (IF b.m = << >> THEN 0 ELSE -1)
    ELSE IF b.m = << >> THEN 1
    ELSE IF a.e # b.e THEN (IF a.e < b.e THEN -1 ELSE 1)
    ELSE BigCmp(a.m, b.m)
FCmp(a, b) ==
    IF a.neg /\ ~b.neg THEN (IF a.m = << >> /\ b.m = << >> THEN 0 ELSE -1)
    ELSE IF ~a.neg /\ b.neg THEN 1
    ELSE IF a.neg THEN -FCmpMag(a, b)
    ELSE FCmpMag(a, b)

(* ------------------- monitorTrade and _monitorTrades ------------------ *)
\* what marketAnalyzer.getTokenPrice hands back: a price, or nothing / an exception
MonitorPrices == {NoPrice, 995, 1200}
\* what _estimateGasCost hands back: gasPrice * txSize, or its default
GasCosts == {DefaultGasCost, 50}

\* the highest price on record after currentPrice was seen
UpdateHighest(t, currentPrice) ==
    IF highestPrices[t] = NoPrice \/ currentPrice > highestPrices[t]
    THEN currentPrice ELSE highestPrices[t]

\* the prices the price feed hands back where the exit rules are examined at their
\* thresholds: around -1%, +1.5% of an entry at 1.000 and around 1% below a high of 1.200
PolicyPrices == {990, 995, 1015, 1016, 1188, 1189, 1200}

\* the quantities monitorTrade computes with, in thousandths: prices seen, entry prices,
\* position sizes, gas costs, thresholds and the literal 1
Prices == (MonitorPrices \cup PolicyPrices) \ {NoPrice}
FillPrices == {o.price : o \in {f \in BuyOrderOutcomes : ~f.threw /\ f.price # 0}}
Sizes == {CalculatePositionSize(amt, a) : amt \in Amounts \ {0}, a \in Analyses}
Quantities == Prices \cup FillPrices \cup Sizes \cup GasCosts
              \cup {trailingStopPercent, minProfitPercent, maxLossPercent, 1000}
\* a quantity held in thousandths, as the JavaScript number it stands for
NumOf == [n \in Quantities |-> FRatio(n, 1000)]
Num(n) == NumOf[n]
\* pnl, dropFromHigh and breakEvenPrice of monitorTrade, each computed once per argument
PnlOf == [entryPrice \in FillPrices, currentPrice \in Prices |->
             FDiv(FSub(Num(currentPrice), Num(entryPrice)), Num(entryPrice))]
DropFromHighOf == [currentPrice \in Prices, highestPrice \in Prices |->
             FDiv(FSub(Num(highestPrice), Num(currentPrice)), Num(highestPrice))]
BreakEvenPriceOf == [entryPrice \in FillPrices, solIn \in Sizes, gasCost \in GasCosts |->
             FMul(Num(entryPrice), FAdd(Num(1000), FDiv(Num(gasCost), Num(solIn))))]
Pnl(trade, currentPrice) == PnlOf[trade.entryPrice, currentPrice]
DropFromHigh(currentPrice, highestPrice) == DropFromHighOf[currentPrice, highestPrice]
BreakEvenPrice(trade, gasCost) == BreakEvenPriceOf[trade.entryPrice, trade.solIn, gasCost]

\* the five exit conditions of monitorTrade
\* mutant: no position is too old
TimeExitNever(trade, time) == FALSE
TimeExit(trade, time) == time - trade.entryTime > maxHoldTime
\* mutant: the trailing stop does not ask for a profit
TrailingStopAtAnyPnl(trade, currentPrice, highestPrice) ==
    FCmp(DropFromHigh(currentPrice, highestPrice), Num(trailingStopPercent)) >= 0
TrailingStop(trade, currentPrice, highestPrice) ==
    /\ FCmp(Pnl(trade, currentPrice), FZero) > 0
    /\ FCmp(DropFromHigh(currentPrice, highestPrice), Num(trailingStopPercent)) >= 0
ProfitTarget(trade, currentPrice) ==
    FCmp(Pnl(trade, currentPrice), Num(minProfitPercent)) >= 0
LossLimit(trade, currentPrice) ==
    FCmp(Pnl(trade, currentPrice), FNeg(Num(maxLossPercent))) <= 0
BreakEven(trade, currentPrice, gasCost) ==
    FCmp(Num(currentPrice), BreakEvenPrice(trade, gasCost)) >= 0

\* mutant: the profit target is looked at before the hold time
MonitorDecisionProfitFirst(trade, currentPrice, highestPrice, gasCost, time) ==
    IF ProfitTarget(trade, currentPrice) THEN "Profit target reached"
    ELSE IF TimeExit(trade, time) THEN "Maximum hold time reached"
    ELSE IF TrailingStop(trade, currentPrice, highestPrice) THEN "Trailing stop triggered"
    ELSE IF LossLimit(trade, currentPrice) THEN "Loss limit reached"
    ELSE IF BreakEven(trade, currentPrice, gasCost) THEN "Break-even point reached"
    ELSE "hold"
\* the decision of monitorTrade: the reason of the first condition met, or "hold"
MonitorDecision(trade, currentPrice, highestPrice, gasCost, time) ==
    IF TimeExit(trade, time) THEN "Maximum hold time reached"
    ELSE IF TrailingStop(trade, currentPrice, highestPrice) THEN "Trailing stop triggered"
    ELSE IF ProfitTarget(trade, currentPrice) THEN "Profit target reached"
    ELSE IF LossLimit(trade, currentPrice) THEN "Loss limit reached"
    ELSE IF BreakEven(trade, currentPrice, gasCost) THEN "Break-even point reached"
    ELSE "hold"

\* the for-of loop moves to the next entry of activeTrades, or ends
Advance(tk, keys, trades) ==
    IF tk.cursor < Len(keys)
    THEN [IdleTick EXCEPT !.pc = "price", !.cursor = tk.cursor + 1,
                          !.token = keys[tk.cursor + 1],
                          !.trade = trades[keys[tk.cursor + 1]]]
    ELSE [IdleTick EXCEPT !.pc = "done"]

\* cleanupTrade
CleanupTrade(t) == [highestPrices EXCEPT ![t] = NoPrice]

\* the interval timer fires: _monitorTrades runs up to the price request of the first trade
TickStart(k) ==
    /\ NextIdle(ticks, k)
    /\ ticks' = [ticks EXCEPT ![k] = Advance(IdleTick, activeKeys, activeTrades)]
    /\ UNCHANGED <<activeKeys, activeTrades, executionLock, riskActiveTrades, dailyStats,
                   highestPrices, now, clockSteps, mainLoop, buys, sells, hist, backoff,
                   services>>

\* mutant: the exception of monitorTrade ends the tick
TickPriceEscapes(k, currentPrice) ==
    /\ ticks[k].pc = "price"
    /\ LET tk == ticks[k]
           t == tk.token IN
       IF currentPrice = NoPrice
       THEN /\ ticks' = [ticks EXCEPT ![k] = [IdleTick EXCEPT !.pc = "done"]]
            /\ UNCHANGED <<highestPrices, hist>>
       ELSE /\ highestPrices' = [highestPrices EXCEPT ![t] = UpdateHighest(t, currentPrice)]
            /\ ticks' = [ticks EXCEPT ![k] = [tk EXCEPT !.pc = "gas", !.price = currentPrice,
                                                       !.highest = highestPrices'[t]]]
            /\ hist' = [hist EXCEPT !.high[t] = IF Has(t) THEN highestPrices'[t] ELSE @]
    /\ UNCHANGED <<activeKeys, activeTrades, executionLock, riskActiveTrades, dailyStats,
                   now, clockSteps, mainLoop, buys, sells, backoff, services>>
\* the price answers: without a price monitorTrade throws and the loop goes on; with one
\* the highest price is updated and the gas cost asked for
TickPrice(k, currentPrice) ==
    /\ ticks[k].pc = "price"
    /\ LET tk == ticks[k]
           t == tk.token IN
       IF currentPrice = NoPrice
       THEN /\ ticks' = [ticks EXCEPT ![k] = Advance(tk, activeKeys, activeTrades)]
            /\ UNCHANGED <<highestPrices, hist>>
       ELSE /\ highestPrices' = [highestPrices EXCEPT ![t] = UpdateHighest(t, currentPrice)]
            /\ ticks' = [ticks EXCEPT ![k] = [tk EXCEPT !.pc = "gas", !.price = currentPrice,
                                                       !.highest = highestPrices'[t]]]
            /\ hist' = [hist EXCEPT !.high[t] = IF Has(t) THEN highestPrices'[t] ELSE @]
    /\ UNCHANGED <<activeKeys, activeTrades, executionLock, riskActiveTrades, dailyStats,
                   now, clockSteps, mainLoop, buys, sells, backoff, services>>

\* the gas cost answers: monitorTrade decides; on a close decision executeSell is called
TickGas(k, gasCost) ==
    /\ ticks[k].pc = "gas"
    /\ LET tk == ticks[k]
           reason == MonitorDecision(tk.trade, tk.price, tk.highest, gasCost, now) IN
       IF reason = "hold"
       THEN /\ ticks' = [ticks EXCEPT ![k] = Advance(tk, activeKeys, activeTrades)]
            /\ UNCHANGED sells
       ELSE /\ ticks' = [ticks EXCEPT ![k] = [tk EXCEPT !.pc = "selling", !.trade = NoTrade,
                                                       !.highest = 0]]
            /\ sells' = [sells EXCEPT ![TickSell(k)] = SellBegin(tk.token, reason)]
    /\ UNCHANGED <<activeKeys, activeTrades, executionLock, riskActiveTrades, dailyStats,
                   highestPrices, now, clockSteps, mainLoop, buys, hist, backoff, services>>

\* executeSell has returned to _monitorTrades: cleanupTrade, then the next entry
TickAfterSell(k) ==
    /\ ticks[k].pc = "selling"
    /\ sells[TickSell(k)].pc = "done"
    /\ sells' = [sells EXCEPT ![TickSell(k)] = IdleSell]
    /\ highestPrices' = CleanupTrade(ticks[k].token)
    /\ ticks' = [ticks EXCEPT ![k] = Advance(ticks[k], activeKeys, activeTrades)]
    /\ UNCHANGED <<activeKeys, activeTrades, executionLock, riskActiveTrades, dailyStats,
                   now, clockSteps, mainLoop, buys, hist, backoff, services>>

\* setInterval calls _monitorTrades again
TickAgain(k) ==
    /\ ticks[k].pc = "done"
    /\ ticks' = [ticks EXCEPT ![k] = IdleTick]
    /\ UNCHANGED <<activeKeys, activeTrades, executionLock, riskActiveTrades, dailyStats,
                   highestPrices, now, clockSteps, mainLoop, buys, sells, hist, backoff,
                   services>>

(* -------------------------------- time -------------------------------- *)
ClockAdvance(d) ==
    /\ clockSteps < MaxClockSteps
    /\ clockSteps' = clockSteps + 1
    /\ now' = now + d
    /\ UNCHANGED <<activeKeys, activeTrades, executionLock, riskActiveTrades, dailyStats,
                   highestPrices, buys, sells, ticks, hist, mainLoop, backoff, services>>

\* time does not stop: the clock moves on while a position is no older than maxHoldTime
TimePasses(d) ==
    /\ \E t \in Tokens : Has(t) /\ now - activeTrades[t].entryTime <= maxHoldTime
    /\ now' = now + d
    /\ UNCHANGED <<activeKeys, activeTrades, executionLock, riskActiveTrades, dailyStats,
                   highestPrices, clockSteps, buys, sells, ticks, hist, mainLoop, backoff,
                   services>>

(* ------------------------------ MemeBot ------------------------------- *)
BotUnchanged ==
    UNCHANGED <<activeKeys, activeTrades, executionLock, riskActiveTrades, dailyStats,
                highestPrices, now, clockSteps, buys, sells, ticks, hist, backoff,
                services>>

\* start(): running is set and mainLoop called
BotStart ==
    /\ mainLoop.pc = "idle"
    /\ mainLoop' = [mainLoop EXCEPT !.pc = "loop", !.running = TRUE]
    /\ BotUnchanged

\* stop()
BotStop ==
    /\ mainLoop.running
    /\ mainLoop' = [mainLoop EXCEPT !.running = FALSE]
    /\ BotUnchanged

\* the first statement of the try block of mainLoop
RetryCountAtHead(count) == 0

\* the exponential backoff of the catch block
BackoffDelay(count) == retryDelay * Pow2(count - 1)

\* one iteration of mainLoop, from the test of running to the timeout it ends on. An
\* iteration that does not throw counts one more check without opportunity (the result
\* of executeBuy has no success field, so foundOpportunity stays false) and sleeps
\* checkInterval; one that throws goes through the catch block
MainLoopIteration(threw) ==
    /\ mainLoop.pc \in {"loop", "tokens"}
    /\ IF ~mainLoop.running /\ mainLoop.pc = "loop"
       THEN ~threw /\ mainLoop' = [mainLoop EXCEPT !.pc = "ended"]
       ELSE LET count == RetryCountAtHead(mainLoop.retryCount) IN
            IF ~threw
            THEN /\ mainLoop.noOpportunityCount < MaxNoOpportunity
                 /\ mainLoop' = [mainLoop EXCEPT !.pc = "sleep", !.retryCount = count,
                                                 !.noOpportunityCount = @ + 1,
                                                 !.delay = checkInterval, !.failures = 0]
            ELSE /\ mainLoop.failures < MaxFailures
                 /\ mainLoop' =
                       IF count + 1 >= BotMaxRetries
                       THEN [mainLoop EXCEPT !.pc = "exited", !.retryCount = count + 1,
                                             !.running = FALSE, !.fatalAlert = TRUE,
                                             !.failures = @ + 1]
                       ELSE [mainLoop EXCEPT !.pc = "sleep", !.retryCount = count + 1,
                                             !.delay = BackoffDelay(count + 1),
                                             !.failures = @ + 1]
    /\ BotUnchanged

\* one pass of the for loop over the new tokens that gets to executeBuy, which creates a
\* position and returns: currentTime was read at the head of the iteration, the token is
\* past the check of minTimeBetweenTrades, and lastTradeTime is set under result.success,
\* result being the tradeInfo that executeBuy returns
MainLoopEnter ==
    /\ mainLoop.pc \in {"loop", "tokens"}
    /\ mainLoop.pc = "loop" => mainLoop.running
    /\ mainLoop.enters < MaxEnters
    /\ LET currentTime == IF mainLoop.pc = "loop" THEN BootEpoch + now
                          ELSE mainLoop.currentTime
           result == [tokenMint |-> 1, entryPrice |-> 1000, solIn |-> 500]
           success == "success" \in DOMAIN result IN
       /\ ~(currentTime - mainLoop.lastTradeTime < minTimeBetweenTrades)
       /\ mainLoop' = [mainLoop EXCEPT
              !.pc = "tokens", !.retryCount = RetryCountAtHead(@),
              !.currentTime = currentTime,
              !.lastTradeTime = IF success THEN currentTime ELSE @,
              !.noOpportunityCount = IF success THEN 0 ELSE @,
              !.enters = @ + 1, !.lastEnter = currentTime]
    /\ BotUnchanged

\* the timeout fires: back to the head of the loop
MainLoopWake ==
    /\ mainLoop.pc = "sleep"
    /\ mainLoop' = [mainLoop EXCEPT !.pc = "loop", !.delay = 0]
    /\ BotUnchanged

(* --------------------------- specifications --------------------------- *)
\* Spec: the life of positions. Entries that meet no obstacle, exits from outside and
\* from overlapping monitoring ticks; the clock stands still.
GoodSignals == {WellFormed(t, 500) : t \in Tokens}
GoodSnapshot == [liquidity |-> 200, priceImpact |-> 1]
GoodAnalysis == [condition |-> "neutral", confidence |-> 5, rsi |-> 25, histogram |-> 1,
                 aligned |-> TRUE, volumeTrend |-> "stable"]
GoodFill == Fill(1000, TRUE)

Init == InitWith(NumTokens, NumBuys, NumSells, NumTicks)

Next ==
    \/ \E c \in BuyCalls, p \in GoodSignals : BuyStart(c, p)
    \/ \E c \in BuyCalls : BuyMetrics(c, GoodSnapshot)
    \/ \E c \in BuyCalls : BuyValidate(c, TRUE, TRUE)
    \/ \E c \in BuyCalls : BuyAnalysis(c, TRUE, GoodAnalysis, 5000)
    \/ \E c \in BuyCalls : BuyOrder(c, GoodFill)
    \/ \E c \in BuyCalls : BuyFinish(c, TRUE)
    \/ \E c \in BuyCalls : BuyFail(c)
    \/ \E s \in SellRuns, t \in Tokens : SellStart(s, t)
    \/ \E s \in SellRuns, ok \in SellMetricsOutcomes : SellMetrics(s, ok)
    \/ \E s \in SellRuns, out \in SellOrderOutcomes : SellSwap(s, out)
    \/ \E s \in SellRuns, ok \in SaveOutcomes : SellSave(s, ok)
    \/ \E s \in SellRuns : SellClose(s)
    \/ \E s \in SellRuns : SellFinish(s, TRUE)
    \/ \E s \in SellRuns : SellFail(s)
    \/ \E k \in TickCalls : TickStart(k)
    \/ \E k \in TickCalls, price \in MonitorPrices : TickPrice(k, price)
    \/ \E k \in TickCalls, gasCost \in GasCosts : TickGas(k, gasCost)
    \/ \E k \in TickCalls : TickAfterSell(k)

Spec == Init /\ [][Next]_vars

\* SpecEnter: concurrent calls of executeBuy alone, over every outcome of their
\* collaborators but the alerts, which are delivered.
InitEnter == InitWith(EnterTokens, EnterBuys, 0, 0)

NextEnter ==
    \/ \E c \in BuyCalls, p \in SignalInputs(Tokens) : BuyStart(c, p)
    \/ \E c \in BuyCalls, m \in MetricsOutcomes : BuyMetrics(c, m)
    \/ \E c \in BuyCalls, answered \in BOOLEAN, hasBalance \in BOOLEAN :
          BuyValidate(c, answered, hasBalance)
    \/ \E c \in BuyCalls, answered \in BOOLEAN, a \in EnterAnalyses,
          balance \in WalletBalances : BuyAnalysis(c, answered, a, balance)
    \/ \E c \in BuyCalls, o \in BuyOrderOutcomes : BuyOrder(c, o)
    \/ \E c \in BuyCalls : BuyFinish(c, TRUE)
    \/ \E c \in BuyCalls : BuyFail(c)

SpecEnter == InitEnter /\ [][NextEnter]_vars

\* SpecCapacity: one more concurrent entry than maxConcurrentTrades, each on a token of
\* its own.
InitCapacity == InitWith(maxConcurrentTrades + 1, maxConcurrentTrades + 1, 0, 0)

NextCapacity ==
    \/ \E c \in BuyCalls : BuyStart(c, WellFormed(c, 500))
    \/ \E c \in BuyCalls : BuyMetrics(c, GoodSnapshot)
    \/ \E c \in BuyCalls : BuyValidate(c, TRUE, TRUE)
    \/ \E c \in BuyCalls : BuyAnalysis(c, TRUE, GoodAnalysis, 5000)
    \/ \E c \in BuyCalls, o \in {GoodFill, OrderThrown} : BuyOrder(c, o)
    \/ \E c \in BuyCalls : BuyFinish(c, TRUE)
    \/ \E c \in BuyCalls : BuyFail(c)

SpecCapacity == InitCapacity /\ [][NextCapacity]_vars

\* SpecDay: entries and exits of one token from outside, with good market data,
\* while the clock moves.
InitDay == InitWith(1, DayBuys, DaySells, 0)

NextDay ==
    \/ \E c \in BuyCalls, p \in GoodSignals : BuyStart(c, p)
    \/ \E c \in BuyCalls : BuyMetrics(c, GoodSnapshot)
    \/ \E c \in BuyCalls, hasBalance \in BOOLEAN : BuyValidate(c, TRUE, hasBalance)
    \/ \E c \in BuyCalls : BuyAnalysis(c, TRUE, GoodAnalysis, 5000)
    \/ \E c \in BuyCalls : BuyOrder(c, GoodFill)
    \/ \E c \in BuyCalls : BuyFinish(c, TRUE)
    \/ \E c \in BuyCalls : BuyFail(c)
    \/ \E s \in SellRuns, t \in Tokens : SellStart(s, t)
    \/ \E s \in SellRuns : SellMetrics(s, TRUE)
    \/ \E s \in SellRuns, out \in SellOrderOutcomes : SellSwap(s, out)
    \/ \E s \in SellRuns : SellSave(s, TRUE)
    \/ \E s \in SellRuns : SellClose(s)
    \/ \E s \in SellRuns : SellFinish(s, TRUE)
    \/ \E s \in SellRuns : SellFail(s)
    \/ \E d \in {1, maxHoldTime, DayMs} : ClockAdvance(d)

SpecDay == InitDay /\ [][NextDay]_vars

\* SpecPolicy: one position entered at 1.000 and monitored by overlapping ticks, with the
\* price feed at the thresholds of the exit rules and the clock around maxHoldTime.
InitPolicy == InitWith(1, 1, 0, PolicyTicks)

NextPolicy ==
    \/ \E c \in BuyCalls, p \in GoodSignals : BuyStart(c, p)
    \/ \E c \in BuyCalls : BuyMetrics(c, GoodSnapshot)
    \/ \E c \in BuyCalls : BuyValidate(c, TRUE, TRUE)
    \/ \E c \in BuyCalls : BuyAnalysis(c, TRUE, GoodAnalysis, 5000)
    \/ \E c \in BuyCalls : BuyOrder(c, GoodFill)
    \/ \E c \in BuyCalls : BuyFinish(c, TRUE)
    \/ \E s \in SellRuns, ok \in SellMetricsOutcomes : SellMetrics(s, ok)
    \/ \E s \in SellRuns : SellSwap(s, 400)
    \/ \E s \in SellRuns : SellSave(s, TRUE)
    \/ \E s \in SellRuns : SellClose(s)
    \/ \E s \in SellRuns : SellFinish(s, TRUE)
    \/ \E s \in SellRuns : SellFail(s)
    \/ \E k \in TickCalls : TickStart(k)
    \/ \E k \in TickCalls, currentPrice \in PolicyPrices : TickPrice(k, currentPrice)
    \/ \E k \in TickCalls, gasCost \in GasCosts : TickGas(k, gasCost)
    \/ \E k \in TickCalls : TickAfterSell(k)
    \/ \E d \in {maxHoldTime - 1, maxHoldTime, maxHoldTime + 1} : ClockAdvance(d)

SpecPolicy == InitPolicy /\ [][NextPolicy]_vars

\* SpecLedger: entries and exits of one token from outside without a lock between the
\* exits, so that the risk manager's book and the executor's can part; requests within and
\* above maxPositionSize, price impacts on both sides of the ceiling, every answer of
\* the wallet, exits at a gain and at a loss beyond maxDailyLoss.
InitLedger == InitWith(1, LedgerBuys, LedgerSells, 0)

NextLedger ==
    \/ \E c \in BuyCalls, p \in SignalInputs(Tokens) : BuyStart(c, p)
    \/ \E c \in BuyCalls, m \in {n \in Snapshots : n.liquidity >= minLiquidity} :
          BuyMetrics(c, m)
    \/ \E c \in BuyCalls, answered \in BOOLEAN, hasBalance \in BOOLEAN :
          BuyValidate(c, answered, hasBalance)
    \/ \E c \in BuyCalls : BuyAnalysis(c, TRUE, GoodAnalysis, 5000)
    \/ \E c \in BuyCalls : BuyOrder(c, GoodFill)
    \/ \E c \in BuyCalls : BuyFinish(c, TRUE)
    \/ \E c \in BuyCalls : BuyFail(c)
    \/ \E s \in SellRuns, t \in Tokens : SellStart(s, t)
    \/ \E s \in SellRuns : SellMetrics(s, TRUE)
    \/ \E s \in SellRuns, out \in {0, 400} : SellSwap(s, out)
    \/ \E s \in SellRuns : SellSave(s, TRUE)
    \/ \E s \in SellRuns : SellClose(s)
    \/ \E s \in SellRuns : SellFinish(s, TRUE)
    \/ \E s \in SellRuns : SellFail(s)

SpecLedger == InitLedger /\ [][NextLedger]_vars

\* SpecAlert: entries and exits of one token that meet no obstacle but the trade alert,
\* which is delivered or rejected.
InitAlert == InitWith(1, AlertBuys, AlertSells, 0)

NextAlert ==
    \/ \E c \in BuyCalls, p \in GoodSignals : BuyStart(c, p)
    \/ \E c \in BuyCalls : BuyMetrics(c, GoodSnapshot)
    \/ \E c \in BuyCalls : BuyValidate(c, TRUE, TRUE)
    \/ \E c \in BuyCalls : BuyAnalysis(c, TRUE, GoodAnalysis, 5000)
    \/ \E c \in BuyCalls : BuyOrder(c, GoodFill)
    \/ \E c \in BuyCalls, delivered \in BOOLEAN : BuyFinish(c, delivered)
    \/ \E c \in BuyCalls : BuyFail(c)
    \/ \E s \in SellRuns, t \in Tokens : SellStart(s, t)
    \/ \E s \in SellRuns : SellMetrics(s, TRUE)
    \/ \E s \in SellRuns : SellSwap(s, 400)
    \/ \E s \in SellRuns : SellSave(s, TRUE)
    \/ \E s \in SellRuns : SellClose(s)
    \/ \E s \in SellRuns, delivered \in BOOLEAN : SellFinish(s, delivered)
    \/ \E s \in SellRuns : SellFail(s)

SpecAlert == InitAlert /\ [][NextAlert]_vars

\* SpecLive: positions entered without obstacle and left to the monitoring, which
\* setInterval calls again and again, at a price that meets no exit rule but the hold
\* time. Price fetch, token metrics, sell swap and saveTrade may fail, and succeed in the
\* end (strong fairness of their good outcome); every other awaited call settles, the
\* interval timer fires and time passes (weak fairness).
HoldPrice == 995
InitLive == InitWith(LiveTokens, LiveTokens, 0, 1)

NextLive ==
    \/ \E c \in BuyCalls : BuyStart(c, WellFormed(c, 500))
    \/ \E c \in BuyCalls : BuyMetrics(c, GoodSnapshot)
    \/ \E c \in BuyCalls : BuyValidate(c, TRUE, TRUE)
    \/ \E c \in BuyCalls : BuyAnalysis(c, TRUE, GoodAnalysis, 5000)
    \/ \E c \in BuyCalls : BuyOrder(c, GoodFill)
    \/ \E c \in BuyCalls : BuyFinish(c, TRUE)
    \/ \E s \in SellRuns, ok \in SellMetricsOutcomes : SellMetrics(s, ok)
    \/ \E s \in SellRuns, out \in SellOrderOutcomes : SellSwap(s, out)
    \/ \E s \in SellRuns, ok \in SaveOutcomes :
          SellSave(s, ok) /\ (ok \/ hist.swapped[sells[s].token] <= LiveSaveFailures)
    \/ \E s \in SellRuns : SellClose(s)
    \/ \E s \in SellRuns : SellFinish(s, TRUE)
    \/ \E s \in SellRuns : SellFail(s)
    \/ \E k \in TickCalls : TickStart(k)
    \/ \E k \in TickCalls, currentPrice \in {NoPrice, HoldPrice} : TickPrice(k, currentPrice)
    \/ \E k \in TickCalls : TickGas(k, DefaultGasCost)
    \/ \E k \in TickCalls : TickAfterSell(k)
    \/ \E k \in TickCalls : TickAgain(k)
    \/ TimePasses(maxHoldTime)

FairLive ==
    /\ WF_vars(\E k \in TickCalls : TickStart(k))
    /\ SF_vars(\E k \in TickCalls : TickPrice(k, HoldPrice))
    /\ WF_vars(\E k \in TickCalls : TickGas(k, DefaultGasCost))
    /\ WF_vars(\E k \in TickCalls : TickAfterSell(k))
    /\ WF_vars(\E k \in TickCalls : TickAgain(k))
    /\ SF_vars(\E s \in SellRuns : SellMetrics(s, TRUE))
    /\ SF_vars(\E s \in SellRuns : SellSwap(s, 400))
    /\ SF_vars(\E s \in SellRuns : SellSave(s, TRUE))
    /\ WF_vars(\E s \in SellRuns : SellClose(s))
    /\ WF_vars(\E s \in SellRuns : SellFinish(s, TRUE))
    /\ WF_vars(\E s \in SellRuns : SellFail(s))
    /\ WF_vars(TimePasses(maxHoldTime))

SpecLive == InitLive /\ [][NextLive]_vars /\ FairLive

\* SpecLoop: the polling loop of the bot, each iteration completing or throwing, with
\* enters that create a position, while the clock moves.
InitLoop == InitWith(1, 0, 0, 0)

NextLoop ==
    \/ BotStart
    \/ BotStop
    \/ \E threw \in BOOLEAN : MainLoopIteration(threw)
    \/ MainLoopEnter
    \/ MainLoopWake
    \/ \E d \in {checkInterval, minTimeBetweenTrades} : ClockAdvance(d)

SpecLoop == InitLoop /\ [][NextLoop]_vars

\* SpecSizing: one entry over every market analysis, for a request of half and of the
\* whole of maxPositionSize, its collaborators answering.
NextSizing ==
    \/ \E c \in BuyCalls, t \in Tokens, amt \in {500, 1000} : BuyStart(c, WellFormed(t, amt))
    \/ \E c \in BuyCalls : BuyMetrics(c, GoodSnapshot)
    \/ \E c \in BuyCalls : BuyValidate(c, TRUE, TRUE)
    \/ \E c \in BuyCalls, a \in Analyses : BuyAnalysis(c, TRUE, a, 5000)
    \/ \E c \in BuyCalls, o \in {GoodFill, OrderThrown} : BuyOrder(c, o)
    \/ \E c \in BuyCalls : BuyFinish(c, TRUE)
    \/ \E c \in BuyCalls : BuyFail(c)

SpecSizing == InitPolicy /\ [][NextSizing]_vars

(* --------------------------- JupiterService --------------------------- *)
\* _retryWithBackoff is entered, from outside with retryCount 0 or from its own timeout
\* with retryCount + 1, and calls fn
BackoffCall ==
    /\ backoff.pc \in {"idle", "sleep"}
    /\ backoff' = [backoff EXCEPT !.pc = "fn", !.calls = @ + 1,
                                  !.retryCount = IF backoff.pc = "idle" THEN 0 ELSE @ + 1]
    /\ UNCHANGED <<activeKeys, activeTrades, executionLock, riskActiveTrades, dailyStats,
                   highestPrices, now, clockSteps, mainLoop, services, buys, sells, ticks,
                   hist>>

\* fn settles: its value is returned; its error is thrown on once retryCount has reached
\* maxRetries and is otherwise followed by a timeout of retryDelay * 2^retryCount
RetryWithBackoff(ok) ==
    /\ backoff.pc = "fn"
    /\ backoff' =
          IF ok THEN [backoff EXCEPT !.pc = "done", !.res = "returned"]
          ELSE IF backoff.retryCount >= VenueMaxRetries
          THEN [backoff EXCEPT !.pc = "done", !.res = "raised"]
          ELSE [backoff EXCEPT !.pc = "sleep",
                   !.delays = Append(@, VenueRetryDelay * Pow2(backoff.retryCount))]
    /\ UNCHANGED <<activeKeys, activeTrades, executionLock, riskActiveTrades, dailyStats,
                   highestPrices, now, clockSteps, mainLoop, services, buys, sells, ticks,
                   hist>>

(* ----------------------- initialize and its guards --------------------- *)
\* WalletManager.getBalance: the guard on initialized, then the RPC
GetBalance(initialized, reachable) ==
    IF ~initialized THEN "Wallet not initialized"
    ELSE IF ~reachable THEN "RpcFailed" ELSE "ok"

\* WalletManager.initialize(privateKey): keypair, endpoint, connection, then getBalance,
\* and initialized is set once getBalance has answered
WalletInitialize(validKey, hasEndpoint, reachable) ==
    /\ LET res == IF ~validKey THEN "InvalidKey"
                  ELSE IF ~hasEndpoint THEN "NoEndpoint"
                  ELSE GetBalance(services.walletInitialized, reachable) IN
       services' = [services EXCEPT !.called = "WalletManager.initialize", !.res = res,
                       !.walletInitialized = IF res = "ok" THEN TRUE ELSE @]
    /\ UNCHANGED <<activeKeys, activeTrades, executionLock, riskActiveTrades, dailyStats,
                   highestPrices, now, clockSteps, mainLoop, backoff, buys, sells, ticks,
                   hist>>

\* getBalance, getPublicKey, signTransaction or sendTransaction is called
WalletCall(method, reachable) ==
    /\ services' = [services EXCEPT !.called = method,
                       !.res = GetBalance(services.walletInitialized, reachable)]
    /\ UNCHANGED <<activeKeys, activeTrades, executionLock, riskActiveTrades, dailyStats,
                   highestPrices, now, clockSteps, mainLoop, backoff, buys, sells, ticks,
                   hist>>

\* JupiterService._ensureInitialized
EnsureInitialized ==
    IF ~services.jupiterInitialized THEN "Jupiter service not initialized"
    ELSE IF ~services.walletInitialized THEN "Wallet manager not initialized"
    ELSE "ok"

\* JupiterService.initialize(): the wallet manager is initialized first if it is not,
\* through walletManager.initialize() without a key; then the test quote is asked of
\* getBestRoute, and initialized is set once the quote has come
JupiterInitialize(answers) ==
    /\ LET res == IF ~services.walletInitialized THEN "InvalidKey"
                  ELSE IF EnsureInitialized # "ok" THEN EnsureInitialized
                  ELSE IF ~answers THEN "NoQuote" ELSE "ok" IN
       services' = [services EXCEPT !.called = "JupiterService.initialize", !.res = res,
                       !.jupiterInitialized = IF res = "ok" THEN TRUE ELSE @]
    /\ UNCHANGED <<activeKeys, activeTrades, executionLock, riskActiveTrades, dailyStats,
                   highestPrices, now, clockSteps, mainLoop, backoff, buys, sells, ticks,
                   hist>>

\* getBestRoute, getSwapTransaction, executeSwap or getTokenPrice is called
JupiterCall(method, answers) ==
    /\ services' = [services EXCEPT !.called = method,
                       !.res = IF EnsureInitialized # "ok" THEN EnsureInitialized
                               ELSE IF ~answers THEN "RequestFailed" ELSE "ok"]
    /\ UNCHANGED <<activeKeys, activeTrades, executionLock, riskActiveTrades, dailyStats,
                   highestPrices, now, clockSteps, mainLoop, backoff, buys, sells, ticks,
                   hist>>

\* SpecBoot: the wallet manager and the venue adapter are initialized and called, in any
\* order and with every answer of key, endpoint, RPC and venue, next to one entry.
NextBoot ==
    \/ \E validKey \in BOOLEAN, hasEndpoint \in BOOLEAN, reachable \in BOOLEAN :
          WalletInitialize(validKey, hasEndpoint, reachable)
    \/ \E method \in {"getBalance", "getPublicKey", "signTransaction", "sendTransaction"},
          reachable \in BOOLEAN : WalletCall(method, reachable)
    \/ \E answers \in BOOLEAN : JupiterInitialize(answers)
    \/ \E method \in {"getBestRoute", "getSwapTransaction", "executeSwap", "getTokenPrice"},
          answers \in BOOLEAN : JupiterCall(method, answers)
    \/ NextSizing

SpecBoot == InitPolicy /\ [][NextBoot]_vars

\* SpecRetry: the entries of SpecEnter next to a call of the venue's backoff helper, the
\* wrapped operation failing or succeeding at every attempt.
NextRetry ==
    \/ NextEnter
    \/ BackoffCall
    \/ \E ok \in BOOLEAN : RetryWithBackoff(ok)

SpecRetry == InitEnter /\ [][NextRetry]_vars

(* ------------------------------- claims ------------------------------- *)
InFlightBuys(t) == {c \in BuyCalls : buys[c].token = t /\ buys[c].pc \notin {"idle", "done"}}
InFlightSells(t) == {s \in SellRuns : sells[s].token = t /\ sells[s].pc \notin {"idle", "done"}}
Entered(c) == buys[c].pc # "idle" /\ buys[c].res # "ValidationError"

\* C1: of two executeBuy calls for one token of which the later started while the earlier
\* was in flight or after it had succeeded, the later one fails, with a lock conflict when
\* the earlier is still in flight and with a lock conflict or DuplicatePosition when the
\* earlier has succeeded; no token has two calls past the lock check at once, and (no
\* exit being made) no token gets a second position.
C1_MutualExclusion ==
    /\ \A t \in Tokens : Cardinality(InFlightBuys(t)) <= 1 /\ hist.opened[t] <= 1
    /\ \A c1, c2 \in BuyCalls :
          (/\ c1 < c2 /\ Entered(c1) /\ Entered(c2)
           /\ buys[c1].token = buys[c2].token
           /\ (buys[c1].pc # "done" \/ buys[c1].res = "Success"))
          => /\ buys[c2].res \in {"LockConflict", "DuplicatePosition"}
             /\ buys[c1].pc # "done" => buys[c2].res = "LockConflict"
             /\ buys[c2].res = "DuplicatePosition" => buys[c1].res = "Success"

\* two calls for one token are over: one has succeeded, the other met the lock
C1_Witness ==
    \E c1, c2 \in BuyCalls :
        /\ buys[c1].token = buys[c2].token
        /\ buys[c1].pc = "done" /\ buys[c1].res = "Success"
        /\ buys[c2].pc = "done" /\ buys[c2].res = "LockConflict"

\* C2: the number of active trades never exceeds maxConcurrentTrades.
C2_CapacityRespected == Len(activeKeys) <= maxConcurrentTrades

\* C4: the lock map holds a token exactly while one executeBuy call on it is between its
\* lock acquisition and its finally block, and the step in which a call that had taken
\* the lock ends leaves no lock entry for its token.
C4_LockOnlyInFlight == \A t \in Tokens : LockHas(t) <=> InFlightBuys(t) # {}
C4_EndReleases ==
    \A c \in BuyCalls :
        (buys[c].pc \notin {"idle", "done"} /\ buys'[c].pc = "done")
        => buys[c].token \notin executionLock'
C4_LockReleased == [](C4_LockOnlyInFlight) /\ [][C4_EndReleases]_vars

\* a call has ended on a failed check and its token is unlocked
C4_Witness ==
    \E c \in BuyCalls :
        /\ buys[c].pc = "done" /\ buys[c].res = "InsufficientLiquidity"
        /\ ~LockHas(buys[c].token)

\* C6: a call that has reached the buy swap holds the lock and has passed, in this call,
\* the duplicate, capacity, liquidity and risk checks; the step that ends validateTrade
\* goes on exactly when no check is violated, and otherwise the call ends as a
\* RiskRejection whose reasons are the violated checks (or the one reason of a validation
\* that failed), kept up to the caller.
AllChecks == {"lock", "duplicate", "capacity", "liquidity", "risk"}
C6_SwapAfterChecks ==
    \A c \in BuyCalls :
        /\ buys[c].pc \in {"order", "registered"}
              => buys[c].passed = AllChecks /\ LockHas(buys[c].token)
        /\ buys[c].res = "Success" => buys[c].passed = AllChecks
        /\ buys[c].res = "RiskRejection"
              => buys[c].reasons # << >> /\ "risk" \notin buys[c].passed
\* the violated checks the call itself can see (the balance is the wallet's answer)
Violated(b) ==
    (IF b.amount > maxPositionSize THEN {"size"} ELSE {})
    \cup (IF riskActiveTrades[b.token] # NoRisk THEN {"duplicate"} ELSE {})
    \cup (IF dailyStats.totalPnL < -maxDailyLoss THEN {"dailyLoss"} ELSE {})
    \cup (IF b.priceImpact > PriceImpactCeiling THEN {"priceImpact"} ELSE {})
C6_RejectionStep ==
    \A c \in BuyCalls :
        /\ (buys[c].pc = "balance" /\ buys'[c].pc # "balance")
           => /\ Range(buys'[c].reasons) \ {"balance"} \in {Violated(buys[c]), {"failed"}}
              /\ IF buys'[c].reasons = << >> THEN buys'[c].pc = "analysis"
                 ELSE buys'[c].pc = "errAlert" /\ buys'[c].res = "RiskRejection"
        /\ (buys[c].pc = "errAlert" /\ buys'[c].pc = "done")
           => buys'[c].reasons = buys[c].reasons /\ buys'[c].res = buys[c].res
C6_SwapOnlyAfterValidation == [](C6_SwapAfterChecks) /\ [][C6_RejectionStep]_vars

\* a call was rejected for two reasons at once, another reached the swap
C6_Witness ==
    /\ \E c \in BuyCalls : buys[c].pc = "done" /\ buys[c].res = "RiskRejection"
                           /\ {"size", "priceImpact"} \subseteq Range(buys[c].reasons)
    /\ \E c \in BuyCalls : buys[c].pc = "order"

\* C3: per token, no more sell swaps are done, trade records handed to the repository and
\* pnl folded into the daily stats than positions were opened.
C3_ExitAtMostOnce ==
    \A t \in Tokens :
        /\ hist.swapped[t] <= hist.opened[t]
        /\ hist.handed[t] <= hist.opened[t]
        /\ hist.folded[t] <= hist.opened[t]

\* C5: at most one executeBuy or executeSell is suspended at an external call for a token
\* at any time (a sell run counts from the moment it has found its position).
SuspendedSells(t) ==
    {s \in SellRuns : sells[s].token = t
                      /\ sells[s].pc \in {"metrics", "swap", "save", "close", "alert"}}
C5_OneInFlight ==
    \A t \in Tokens : Cardinality(InFlightBuys(t)) + Cardinality(SuspendedSells(t)) <= 1

\* C7: executeSell never raises; the step in which its metrics fetch or its swap fails
\* changes neither the active trades, nor the risk manager's trades and daily stats, nor
\* the records handed to the repository, and the run then returns that failure.
C7_AlwaysReturned == \A s \in SellRuns : sells[s].pc = "done" => sells[s].how = "returned"
C7_FailureStep ==
    \A s \in SellRuns :
        /\ (sells[s].pc \in {"metrics", "swap"} /\ sells'[s].pc = "errAlert")
           => /\ sells'[s].res \in {"SnapshotUnavailable", "ExecutionFailed"}
              /\ UNCHANGED <<activeKeys, activeTrades, riskActiveTrades, dailyStats, hist>>
        /\ (sells[s].pc = "errAlert" /\ sells'[s].pc = "done")
           => /\ sells'[s].res = sells[s].res
              /\ UNCHANGED <<activeKeys, activeTrades, riskActiveTrades, dailyStats, hist>>
C7_SellFailureReturned == [](C7_AlwaysReturned) /\ [][C7_FailureStep]_vars

\* a sell has returned its swap failure, the position is still open, registered with
\* the risk manager, and a monitoring tick is evaluating it
C7_Witness ==
    \E s \in SellRuns, k \in TickCalls :
        /\ sells[s].pc = "done" /\ sells[s].res = "ExecutionFailed"
        /\ Has(sells[s].token) /\ riskActiveTrades[sells[s].token] # NoRisk
        /\ hist.handed[sells[s].token] = 0
        /\ ticks[k].pc = "price" /\ ticks[k].token = sells[s].token

\* C8: once no executeSell is in flight for a token, every sell swap done for it has been
\* followed by closePosition (saving the record may have failed).
C8_CloseSurvivesSaveFailure ==
    \A t \in Tokens : InFlightSells(t) = {} => hist.folded[t] = hist.swapped[t]

\* C9: a validateTrade made while the daily pnl is below the floor reports the daily-loss
\* violation within 24h of the last reset of the daily stats, and does not report it once
\* more than 24h have passed since that reset.
C9_ValidateStep ==
    \A c \in BuyCalls :
        (buys[c].pc = "balance" /\ buys'[c].pc # "balance"
         /\ dailyStats.totalPnL < -maxDailyLoss)
        => IF now - dailyStats.lastReset > DayMs
           THEN "dailyLoss" \notin Range(buys'[c].reasons)
           ELSE "dailyLoss" \in Range(buys'[c].reasons)
C9_DailyLossResets == [][C9_ValidateStep]_vars

\* C10: while a position stays open, the highest price on record for it after one
\* evaluation is not below the one after the evaluation before.
C10_HighestStep ==
    \A t \in Tokens : (Has(t) /\ Has(t)') => hist'.high[t] >= hist.high[t]
C10_HighestMonotone == [][C10_HighestStep]_vars

\* C11: whenever no execution lock is held, the tokens with a trade in the risk manager
\* are the tokens of activeTrades.
RiskOpen == {t \in Tokens : riskActiveTrades[t] # NoRisk}
C11_LedgerMatchesActive == executionLock = {} => RiskOpen = Range(activeKeys)

\* An evaluation is the step in which monitorTrade decides: the tick leaves "gas". It
\* closes with a reason when the tick calls executeSell with it, and holds otherwise.
Evaluates(k) == ticks[k].pc = "gas" /\ ticks'[k].pc # "gas"
ClosesWith(k, reason) ==
    ticks'[k].pc = "selling" /\ sells'[TickSell(k)].exitReason = reason
Holds(k) == ticks'[k].pc # "selling" /\ sells' = sells
Age(k) == now - ticks[k].trade.entryTime

\* C12: an evaluation holds or closes with one reason, that of the first condition met in
\* the order time, trailing stop, profit target, loss limit, break-even.
ReasonOrder == <<"Maximum hold time reached", "Trailing stop triggered",
                 "Profit target reached", "Loss limit reached", "Break-even point reached">>
Met(i, k, gasCost) ==
    LET tk == ticks[k] IN
    CASE i = 1 -> TimeExit(tk.trade, now)
      [] i = 2 -> TrailingStop(tk.trade, tk.price, tk.highest)
      [] i = 3 -> ProfitTarget(tk.trade, tk.price)
      [] i = 4 -> LossLimit(tk.trade, tk.price)
      [] i = 5 -> BreakEven(tk.trade, tk.price, gasCost)
C12_Step ==
    \A k \in TickCalls : Evaluates(k) =>
        \E gasCost \in GasCosts :
            LET met == {i \in 1..5 : Met(i, k, gasCost)} IN
            IF met = {} THEN Holds(k)
            ELSE \E i \in met : (\A j \in met : i <= j) /\ ClosesWith(k, ReasonOrder[i])
C12_FirstConditionWins == [][C12_Step]_vars
\* a position past its hold time and past its profit target is being closed for the time
C12_Witness ==
    \E k \in TickCalls :
        /\ ticks[k].pc = "selling" /\ Has(ticks[k].token)
        /\ sells[TickSell(k)].exitReason = "Maximum hold time reached"
        /\ ProfitTarget(activeTrades[ticks[k].token], ticks[k].price)

\* C13: an evaluation closes for the time exactly when now - entryTime >= maxHoldTime.
C13_Step ==
    \A k \in TickCalls : Evaluates(k) =>
        (ClosesWith(k, "Maximum hold time reached") <=> Age(k) >= maxHoldTime)
C13_TimeExpiredAtEquality == [][C13_Step]_vars

\* C14: a position younger than maxHoldTime, entered at 1.000 with the highest price
\* 1.200, that is in profit is closed by the trailing stop exactly when the price is at
\* most 1.188; and a trailing stop always has pnl > 0 and a drop from the high of 1%.
C14_Step ==
    \A k \in TickCalls : (Evaluates(k) /\ Age(k) < maxHoldTime) =>
        LET tk == ticks[k]
            trailing == ClosesWith(k, "Trailing stop triggered") IN
        /\ (tk.trade.entryPrice = 1000 /\ tk.highest = 1200 /\ tk.price > 1000)
              => (trailing <=> tk.price <= 1188)
        /\ trailing => /\ tk.price > tk.trade.entryPrice
                       /\ (tk.highest - tk.price) * 1000 >= trailingStopPercent * tk.highest
C14_TrailingStop == [][C14_Step]_vars
\* the trailing stop closes the position at 1.188 under a high of 1.200
C14_Witness ==
    \E k \in TickCalls :
        /\ ticks[k].pc = "selling" /\ ticks[k].price = 1188
        /\ sells[TickSell(k)].exitReason = "Trailing stop triggered"
        /\ highestPrices[ticks[k].token] = 1200
        /\ activeTrades[ticks[k].token].entryPrice = 1000

\* C15: a position younger than maxHoldTime whose trailing stop is not hit is closed for
\* the profit target exactly when pnl >= 1.5% and for the loss limit exactly when
\* pnl <= -1%, pnl being (currentPrice - entryPrice) / entryPrice.
C15_Step ==
    \A k \in TickCalls :
        LET tk == ticks[k]
            gain == (tk.price - tk.trade.entryPrice) * 1000
            trailing == /\ gain > 0
                        /\ (tk.highest - tk.price) * 1000 >= trailingStopPercent * tk.highest
        IN (Evaluates(k) /\ Age(k) < maxHoldTime /\ ~trailing) =>
              /\ ClosesWith(k, "Profit target reached")
                    <=> gain >= minProfitPercent * tk.trade.entryPrice
              /\ ClosesWith(k, "Loss limit reached")
                    <=> gain <= -(maxLossPercent * tk.trade.entryPrice)
C15_ProfitAndLossThresholds == [][C15_Step]_vars

\* C16: validateTrade evaluates its five checks each on its own. Whenever the wallet has
\* answered, the reasons list it returns holds one reason for every violated check and
\* none for a check that is met, no reason twice, whatever the other checks say; the
\* call goes on past the validation exactly when the list is empty.
Checks == {"balance", "size", "duplicate", "dailyLoss", "priceImpact"}
ViolatedChecks(b, wallet) ==
    Violated(b) \cup (IF wallet = "no" THEN {"balance"} ELSE {})
C16_Step ==
    \A c \in BuyCalls :
        (buys[c].pc = "balance" /\ buys'[c].pc # "balance")
        => LET reasons == buys'[c].reasons IN
           /\ buys'[c].wallet # "threw"
                 => /\ Range(reasons) = ViolatedChecks(buys[c], buys'[c].wallet)
                    /\ Len(reasons) = Cardinality(Range(reasons))
           /\ buys'[c].pc = "analysis" <=> Len(reasons) = 0
           /\ buys'[c].pc # "analysis"
                 => buys'[c].pc = "errAlert" /\ buys'[c].res = "RiskRejection"
C16_ReasonsAreTheViolatedChecks == [][C16_Step]_vars

\* all five checks were violated at once and all five reasons returned
C16_Witness ==
    \E c \in BuyCalls : buys[c].res = "RiskRejection" /\ Range(buys[c].reasons) = Checks

\* C17: every failure of executeBuy other than a malformed signal (lock conflict,
\* duplicate position, capacity, snapshot unavailable, risk rejection, execution failed
\* and the rest) reaches the caller as a returned result, never as a raised exception.
C17_FailuresReturned ==
    \A c \in BuyCalls :
        (buys[c].pc = "done" /\ buys[c].res \notin {"Success", "ValidationError"})
        => buys[c].how = "returned"

\* C18: a call of executeBuy with a malformed signal (amount missing or not positive,
\* empty token mint, symbol, strategy or entry reason) is over within its first step with
\* a raised validation error: it has taken no lock and got through to no check or
\* collaborator, and the lock map, the active trades and the risk manager's book are what
\* they were, whatever else is in flight.
Malformed(p) ==
    \/ p.amount <= 0
    \/ p.tokenMint = NoMint
    \/ "" \in {p.tokenSymbol, p.strategy, p.entryReason}
C18_Step ==
    \A c \in BuyCalls, p \in SignalInputs(Tokens) :
        (BuyStart(c, p) /\ Malformed(p))
        => /\ buys'[c].pc = "done" /\ buys'[c].how = "raised"
           /\ buys'[c].res = "ValidationError" /\ buys'[c].passed = {}
           /\ UNCHANGED <<executionLock, activeKeys, activeTrades, riskActiveTrades,
                          dailyStats>>
C18_MalformedRaisesAtOnce == [][C18_Step]_vars

\* a malformed signal for token 1 was turned away while an earlier entry for token 1 held
\* the lock and an exit of token 1 was under way
C18_Witness ==
    \E c, d \in BuyCalls :
        /\ d < c /\ buys[d].token = 1 /\ buys[d].pc = "metrics" /\ LockHas(1)
        /\ buys[c].token = 1 /\ buys[c].res = "ValidationError" /\ buys[c].how = "raised"
        /\ \E s \in SellRuns : sells[s].token = 1 /\ sells[s].pc = "swap"

\* C19: activeTrades holds at most one position per token. A call of executeBuy for a
\* token whose position is open opens nothing: it is turned away at its first step, and
\* when it got the lock it fails as DuplicatePosition with the lock in hand, before any
\* collaborator or swap is reached; neither that step nor the one that ends the call
\* touches the position or the risk manager's book. A buy swap only ever registers a
\* position for a token that has none.
Open(t) == t \in Range(activeKeys)
Books == <<activeKeys, activeTrades, riskActiveTrades, dailyStats, hist.opened>>
C19_OnePerToken == Cardinality(Range(activeKeys)) = Len(activeKeys)
C19_Step ==
    /\ \A c \in BuyCalls, p \in SignalInputs(Tokens) :
          (BuyStart(c, p) /\ ~Malformed(p) /\ Open(p.tokenMint))
          => /\ UNCHANGED Books
             /\ IF LockHas(p.tokenMint)
                THEN buys'[c].pc = "done" /\ buys'[c].res = "LockConflict"
                ELSE /\ buys'[c].pc = "errAlert" /\ buys'[c].res = "DuplicatePosition"
                     /\ buys'[c].passed = {"lock"} /\ p.tokenMint \in executionLock'
    /\ \A c \in BuyCalls :
          /\ (buys[c].res = "DuplicatePosition" /\ buys'[c] # buys[c])
             => /\ buys[c].pc = "errAlert" /\ buys'[c].pc = "done"
                /\ buys'[c].res = "DuplicatePosition"
                /\ LockHas(buys[c].token)
                /\ UNCHANGED Books
          /\ (buys[c].pc = "order" /\ buys'[c].pc = "registered")
             => ~Open(buys[c].token)
C19_OnePositionPerToken == [](C19_OnePerToken) /\ [][C19_Step]_vars

\* a call was turned away as a duplicate, and the position it met is still there as it
\* was filled
C19_Witness ==
    \E c \in BuyCalls :
        /\ buys[c].pc = "done" /\ buys[c].res = "DuplicatePosition"
        /\ Open(buys[c].token)
        /\ activeTrades[buys[c].token].entryPrice = GoodFill.price
        /\ riskActiveTrades[buys[c].token].entryPrice = GoodFill.price

\* C20: a call of executeBuy returns its trade exactly when it has opened the position.
\* The step that registers the fill puts the token into activeTrades and into the risk
\* manager's book with the price of the fill and the size that was executed; when the
\* call then returns, the token is still in both, with that price and size; and no other
\* step of a call, so no step of a call that ends otherwise, adds to either.
Registers(c) == buys[c].pc = "order" /\ buys'[c].pc = "registered"
C20_Registered ==
    \A c \in BuyCalls, o \in BuyOrderOutcomes :
        (BuyOrder(c, o) /\ Registers(c))
        => LET t == buys[c].token IN
           /\ Open(t)'
           /\ activeTrades'[t].entryPrice = o.price /\ activeTrades'[t].solIn = buys[c].size
           /\ riskActiveTrades'[t].entryPrice = o.price
           /\ riskActiveTrades'[t].amount = buys[c].size
C20_Returned ==
    \A c \in BuyCalls :
        (buys[c].pc # "done" /\ buys'[c].pc = "done")
        => LET t == buys[c].token IN
           IF buys[c].pc = "registered"
           THEN /\ buys'[c].res = "Success" /\ buys'[c].how = "returned"
                /\ Open(t) /\ activeTrades[t] # NoTrade /\ riskActiveTrades[t] # NoRisk
                /\ activeTrades[t].entryPrice = riskActiveTrades[t].entryPrice
                /\ activeTrades[t].solIn = riskActiveTrades[t].amount
           ELSE buys'[c].res # "Success"
C20_NothingAddedOtherwise ==
    \A c \in BuyCalls :
        (buys'[c] # buys[c] /\ ~Registers(c))
        => UNCHANGED <<activeKeys, activeTrades, riskActiveTrades>>
C20_SuccessMeansOpen ==
    [][C20_Registered /\ C20_Returned /\ C20_NothingAddedOtherwise]_vars

\* C21: the trade alert is fire-and-forget. However sendTradeAlert settles, a call of
\* executeBuy that has registered its position returns it and leaves the lock free, and a
\* run of executeSell that has removed the position reports success; the alert changes
\* neither the active trades nor the risk manager's book.
C21_Step ==
    /\ \A c \in BuyCalls :
          (buys[c].pc = "registered" /\ buys'[c] # buys[c])
          => /\ buys'[c].pc = "done" /\ buys'[c].res = "Success"
             /\ buys'[c].how = "returned"
             /\ buys[c].token \notin executionLock'
             /\ UNCHANGED <<activeKeys, activeTrades, riskActiveTrades, dailyStats>>
    /\ \A s \in SellRuns :
          (sells[s].pc = "alert" /\ sells'[s] # sells[s])
          => /\ sells'[s].pc = "done" /\ sells'[s].res = "Success"
             /\ UNCHANGED <<activeKeys, activeTrades, riskActiveTrades, dailyStats,
                            executionLock>>
C21_AlertsFireAndForget == [][C21_Step]_vars

\* C22: a run of executeSell for a token without an open position is over as NotFound,
\* returned and not raised: from its first step it goes to the error alert and from there
\* to its end, so it asks for no metrics, swaps nothing and saves no trade, and neither
\* step changes the active trades, the risk manager's book or the lock map.
SellBooks == <<activeKeys, activeTrades, riskActiveTrades, dailyStats, executionLock,
               hist>>
C22_Step ==
    \A r \in SellRuns :
        /\ (sells[r].pc = "idle" /\ sells'[r].pc # "idle" /\ ~Open(sells'[r].token))
           => /\ sells'[r].pc = "errAlert" /\ sells'[r].res = "NotFound"
              /\ UNCHANGED SellBooks
        /\ (sells[r].res = "NotFound" /\ sells[r].pc # "done" /\ sells'[r] # sells[r])
           => /\ sells[r].pc = "errAlert" /\ sells'[r].pc = "done"
              /\ sells'[r].res = "NotFound" /\ sells'[r].how = "returned"
              /\ UNCHANGED SellBooks
C22_NotFoundReturned == [][C22_Step]_vars

\* executeSell was called from outside for a token that has no position, and has returned
C22_Witness ==
    \E s \in SellCalls :
        /\ sells[s].pc = "done" /\ sells[s].res = "NotFound" /\ sells[s].how = "returned"
        /\ ~Open(sells[s].token)

\* C23: a run of executeSell that succeeds hands over a trade record whose pnl is the SOL
\* received less the solIn of the position, folds that same pnl into the daily pnl when it
\* closes the position with the risk manager, moves on in the order swap, save, close,
\* removal from activeTrades, and when it returns the token is in neither activeTrades
\* nor the risk manager's book.
SellOrder == <<"metrics", "swap", "save", "close", "alert", "done">>
C23_Pnl ==
    \A r \in SellRuns :
        /\ (sells[r].pc = "idle" /\ sells'[r].pc = "metrics")
           => sells'[r].solIn = activeTrades[sells'[r].token].solIn
        /\ \A out \in SellOrderOutcomes :
              (SellSwap(r, out) /\ sells'[r].pc = "save")
              => sells'[r].pnl = out - sells[r].solIn
        /\ (sells[r].pc = "save" /\ sells'[r].pc = "close")
           => /\ dailyStats'.totalPnL - sells[r].pnl \in {0, dailyStats.totalPnL}
              /\ riskActiveTrades'[sells[r].token] = NoRisk
              /\ UNCHANGED <<activeKeys, activeTrades>>
C23_Order ==
    \A r \in SellRuns :
        (sells'[r].pc # sells[r].pc /\ sells'[r].pc \notin {"idle", "metrics", "errAlert"}
         /\ sells'[r].res \in {"none", "Success"})
        => \E i \in 1..5 : sells[r].pc = SellOrder[i] /\ sells'[r].pc = SellOrder[i + 1]
C23_Returned ==
    \A r \in SellRuns :
        (sells[r].pc = "alert" /\ sells'[r].pc = "done" /\ sells'[r].res = "Success")
        => ~Open(sells[r].token) /\ riskActiveTrades[sells[r].token] = NoRisk
C23_SuccessfulExit == [][C23_Pnl /\ C23_Order /\ C23_Returned]_vars

\* C24: totalPnL of the daily stats is the sum of the pnl of the closePosition calls made
\* since the last reset. Step by step: a closePosition made more than 24h after the last
\* reset starts the sum anew, at its own pnl, and moves the reset time to now; one made
\* within 24h of it adds its pnl and leaves the reset time; nothing else touches the sum.
Closes(r) == sells[r].pc = "save" /\ sells'[r].pc = "close"
C24_Step ==
    /\ \A r \in SellRuns :
          Closes(r)
          => IF now - dailyStats.lastReset > DayMs
             THEN /\ dailyStats'.totalPnL = sells[r].pnl
                  /\ dailyStats'.lastReset = now
             ELSE /\ dailyStats'.totalPnL = dailyStats.totalPnL + sells[r].pnl
                  /\ dailyStats'.lastReset = dailyStats.lastReset
    /\ (\A r \in SellRuns : ~Closes(r)) => UNCHANGED dailyStats
C24_RollingPnlIsSumSinceReset == [][C24_Step]_vars

\* a loss was folded, then exactly 24h and one more millisecond passed and the next close
\* started the sum anew at its own pnl
C24_Witness ==
    /\ dailyStats.lastReset = DayMs + 1
    /\ dailyStats.totalTrades = 1
    /\ dailyStats.totalPnL # 0
    /\ \A t \in Tokens : hist.folded[t] = 2

\* C25: when BotMaxRetries iterations of mainLoop in a row have failed, the loop has sent
\* its alert, stopped the bot and terminated the process; the retry count is the number
\* of iterations that have failed in a row, so that the delay after the k-th such
\* failure is retryDelay * 2^(k-1).
C25_FatalAfterMaxRetries ==
    /\ mainLoop.failures >= BotMaxRetries
          => mainLoop.pc = "exited" /\ ~mainLoop.running /\ mainLoop.fatalAlert
    /\ (mainLoop.pc = "sleep" /\ mainLoop.failures > 0)
          => /\ mainLoop.retryCount = mainLoop.failures
             /\ mainLoop.delay = retryDelay * Pow2(mainLoop.failures - 1)

\* C26: a monitoring tick passes over a token whose execution lock is held: it evaluates
\* no position and starts no executeSell for a token that is locked at that moment.
C26_Step ==
    \A k \in TickCalls :
        /\ (ticks'[k].pc = "price" /\ ticks'[k] # ticks[k]) => ~LockHas(ticks'[k].token)
        /\ (sells[TickSell(k)].pc = "idle" /\ sells'[TickSell(k)].pc # "idle")
           => ~LockHas(sells'[TickSell(k)].token)
C26_TickSkipsLocked == [][C26_Step]_vars

\* C27: with the monitoring tick called again and again, and price fetch, sell swap and
\* saveTrade succeeding in the end, every open position is removed from activeTrades in
\* the end. An evaluation that completes on a position held longer than maxHoldTime
\* decides to close it, and a decision to close calls executeSell with its reason.
C27_Step ==
    \A k \in TickCalls :
        (ticks[k].pc = "gas" /\ ticks'[k].pc # "gas")
        => LET run == sells'[TickSell(k)] IN
           /\ now - ticks[k].trade.entryTime > maxHoldTime
                 => /\ ticks'[k].pc = "selling" /\ run.token = ticks[k].token
                    /\ run.pc # "idle" /\ run.exitReason = "Maximum hold time reached"
           /\ ticks'[k].pc = "selling"
                 => /\ run.pc # "idle" /\ run.token = ticks[k].token
                    /\ run.exitReason \in Range(ReasonOrder)
           /\ ticks'[k].pc # "selling" => UNCHANGED sells
C27_EveryPositionRemoved ==
    /\ \A t \in 1..LiveTokens : (t \in Range(activeKeys)) ~> (t \notin Range(activeKeys))
    /\ [][C27_Step]_vars

\* the position outlived maxHoldTime and the exit that the tick started for that reason
\* has removed it
C27_Witness ==
    \E k \in TickCalls :
        /\ sells[TickSell(k)].pc = "alert"
        /\ sells[TickSell(k)].exitReason = "Maximum hold time reached"
        /\ ~Open(sells[TickSell(k)].token)

\* C28: when the order comes back without an exception but without a price or without a
\* transaction id, the call of executeBuy fails on the execution: it adds no position to
\* activeTrades and registers nothing with the risk manager, and it ends with the lock
\* released.
C28_Step ==
    \A c \in BuyCalls :
        /\ \A o \in BuyOrderOutcomes :
              (BuyOrder(c, o) /\ ~o.threw /\ (o.price = 0 \/ ~o.txId))
              => /\ buys'[c].pc = "errAlert" /\ buys'[c].res = "InvalidResult"
                 /\ UNCHANGED <<activeKeys, activeTrades, riskActiveTrades, hist>>
        /\ (buys[c].res = "InvalidResult" /\ buys'[c] # buys[c])
           => /\ buys'[c].pc = "done" /\ buys'[c].res = "InvalidResult"
              /\ buys[c].token \notin executionLock'
              /\ UNCHANGED <<activeKeys, activeTrades, riskActiveTrades, hist>>
C28_InvalidResultFails == [][C28_Step]_vars

\* a call has ended on an order result without price or transaction id: its token is
\* unlocked and has no position
C28_Witness ==
    \E c \in BuyCalls :
        /\ buys[c].pc = "done" /\ buys[c].res = "InvalidResult"
        /\ ~LockHas(buys[c].token) /\ ~Open(buys[c].token)
        /\ riskActiveTrades[buys[c].token] = NoRisk

\* the retry loops of the executor: a loop that is running has made fewer than maxRetries
\* invocations, and it fails in the step that settles invocation maxRetries
C29_ExecutorLoops ==
    \A c \in BuyCalls :
        buys[c].pc \in {"metrics", "order"}
        => /\ buys[c].i < maxRetries
           /\ buys'[c].res \in {"SnapshotUnavailable", "ExecutionFailed"}
              => buys[c].i + 1 = maxRetries
\* the backoff helper of the venue: no more than maxRetries invocations, exactly that many
\* behind a failure, none after it has returned or failed
C29_VenueHelper ==
    /\ backoff'.calls <= VenueMaxRetries
    /\ backoff'.res = "raised" => backoff'.calls = VenueMaxRetries
    /\ backoff.pc = "done" => backoff' = backoff
\* C29: a retried operation is invoked at most N times for a configured count N, no more
\* once an attempt has succeeded, and exactly N times before the retry ends in a failure;
\* so for _getMarketMetricsWithRetry, _executeOrderWithRetry and _retryWithBackoff.
C29_AtMostNInvocations == [][C29_ExecutorLoops /\ C29_VenueHelper]_vars

\* the retry loops of the executor: the pass in which invocation k throws sleeps
\* 1000 * 2^(k-1) ms when another invocation follows, and does not sleep when k is the last
C30_ExecutorLoops ==
    \A c \in BuyCalls :
        LET k == buys[c].i + 1 IN
        (buys[c].pc \in {"metrics", "order"} /\ buys'[c].lastError = k
            /\ buys[c].lastError # k)
        => buys'[c].slept = IF k < maxRetries THEN 1000 * Pow2(k - 1) ELSE 0
\* the backoff helper of the venue: the j-th timeout is retryDelay * 2^(j-1), there are
\* fewer timeouts than invocations allowed, and a call that succeeds at its third
\* invocation has waited retryDelay and 2 * retryDelay
C30_VenueHelper ==
    /\ \A j \in 1..Len(backoff'.delays) :
           backoff'.delays[j] = VenueRetryDelay * Pow2(j - 1)
    /\ Len(backoff'.delays) < VenueMaxRetries
    /\ (backoff'.res = "returned" /\ backoff'.calls = 3)
       => backoff'.delays = <<VenueRetryDelay, 2 * VenueRetryDelay>>
\* C30: the retry waits baseDelay * 2^(k-1) between failed attempt k and attempt k+1, for
\* every k below the attempt count N, and does not wait after the last failed attempt nor
\* after a success; two failures and a success cost baseDelay and 2 * baseDelay.
C30_BackoffDelays == [][C30_ExecutorLoops /\ C30_VenueHelper]_vars

\* C31: when a retry loop of the executor gives up, the error it throws is the failure of
\* its last attempt: the exception of that attempt when it raised (lastError = maxRetries),
\* and no exception of an earlier attempt when it came back empty (lastError = 0, the
\* loop's own error).
C31_Step ==
    \A c \in BuyCalls :
        /\ \A m \in {NoSnapshot, Thrown} :
              (BuyMetrics(c, m) /\ buys'[c].res = "SnapshotUnavailable")
              => buys'[c].lastError = IF m = Thrown THEN maxRetries ELSE 0
        /\ (BuyOrder(c, OrderThrown) /\ buys'[c].res = "ExecutionFailed")
           => buys'[c].lastError = maxRetries
C31_FinalFailurePropagates == [][C31_Step]_vars

\* C32: the position size an entry goes to the order with is the smaller of the requested
\* amount times the multiplier (confidence, adjusted by RSI and MACD) and maxPositionSize,
\* hence never above maxPositionSize; it is the amount of the buy order and the solIn of
\* the position stored.
C32_Step ==
    \A c \in BuyCalls :
        /\ \A a \in Analyses, balance \in WalletBalances :
              (BuyAnalysis(c, TRUE, a, balance) /\ buys'[c].pc = "order")
              => /\ buys'[c].size <= maxPositionSize
                 /\ LET scaled == (buys[c].amount * SizeMultiplier(a)) \div 1000 IN
                    buys'[c].size = IF scaled < maxPositionSize THEN scaled
                                    ELSE maxPositionSize
        /\ (BuyOrder(c, GoodFill) /\ buys'[c].pc = "registered")
           => /\ activeTrades'[buys[c].token].solIn = buys[c].size
              /\ activeTrades'[buys[c].token].solIn <= maxPositionSize
C32_SizeClamped == [][C32_Step]_vars

\* an entry that asked for the whole of maxPositionSize stands before its order with
\* exactly maxPositionSize: no multiplier is 1, so the product was cut
C32_Witness ==
    \E c \in BuyCalls :
        /\ buys[c].pc = "order" /\ buys[c].amount = maxPositionSize
        /\ buys[c].size = maxPositionSize

\* the product, in 1/100, of the factors _calculateDynamicSlippage applies
C33_Factors(a) ==
    (IF a.condition = "bullish" /\ a.confidence > 7 THEN 12
     ELSE IF a.condition = "bearish" THEN 8 ELSE 10)
    * (IF a.volumeTrend = "increasing" THEN 11
       ELSE IF a.volumeTrend = "decreasing" THEN 9 ELSE 10)
\* C33: the slippage tolerance of a buy order never exceeds maxSlippage, and it is below
\* maxSlippage exactly when the factors applied for market condition, confidence and
\* volume trend multiply to less than 1.
C33_Step ==
    \A c \in BuyCalls, a \in Analyses, balance \in WalletBalances :
        (BuyAnalysis(c, TRUE, a, balance) /\ buys'[c].pc = "order")
        => /\ buys'[c].slippage <= maxSlippage
           /\ buys'[c].slippage < maxSlippage <=> C33_Factors(a) < 100
C33_SlippageClamped == [][C33_Step]_vars

\* an entry stands before its order with a tolerance below the ceiling
C33_Witness ==
    \E c \in BuyCalls :
        buys[c].pc = "order" /\ buys[c].slippage > 0 /\ buys[c].slippage < maxSlippage

\* C34: a tick does not end on an error: when the evaluation of a position fails (no
\* price) the position, its risk entry and its highest price stay as they are, and the
\* tick, after a failed evaluation or a failed close as after any other, ends only when
\* the iterator has handed out every entry of activeTrades and goes to the next entry
\* otherwise.
C34_Step ==
    \A k \in TickCalls :
        /\ (ticks[k].pc = "price" /\ ticks'[k] # ticks[k] /\ ticks'[k].pc # "gas")
           => UNCHANGED <<activeKeys, activeTrades, riskActiveTrades, highestPrices>>
        /\ (ticks[k].pc \in {"price", "gas", "selling"} /\ ticks'[k].pc = "done")
           => ticks[k].cursor >= Len(activeKeys)
        /\ (ticks[k].pc \in {"price", "selling"} /\ ticks'[k].pc = "price"
              /\ ticks'[k] # ticks[k])
           => /\ ticks[k].cursor < Len(activeKeys)
              /\ ticks'[k].token = activeKeys[ticks[k].cursor + 1]
C34_TickSurvivesErrors == [][C34_Step]_vars

\* a tick is at the second of two open positions and the first has no highest price: its
\* evaluation failed, or its close did, in this tick
C34_Witness ==
    \E k \in TickCalls :
        /\ ticks[k].pc = "price" /\ ticks[k].cursor = 2 /\ Len(activeKeys) = 2
        /\ highestPrices[activeKeys[1]] = NoPrice

\* the highest price recorded for an open position was observed during that position
C35_NoStalePrice ==
    \A t \in Tokens :
        (Open(t)' /\ highestPrices'[t] # NoPrice) => highestPrices'[t] = hist'.high[t]
\* the record of a position that is open is not cleared
C35_NoEarlyClear ==
    \A t \in Tokens :
        (highestPrices[t] # NoPrice /\ highestPrices'[t] = NoPrice) => ~Open(t)'
\* C35: the highest-price record of a token is cleared when, and only when, its position
\* is closed, whoever called executeSell: the record of an open position holds no price
\* observed before that position was opened, and it is not cleared while the position
\* is open.
C35_RecordFollowsPosition == [][C35_NoStalePrice /\ C35_NoEarlyClear]_vars

\* C36: an enter of the polling loop that created a position sets lastTradeTime to the
\* time of that trade, and the loop issues no enter less than minTimeBetweenTrades after
\* it; an iteration that fails leaves lastTradeTime as it was.
C36_Step ==
    /\ mainLoop'.enters # mainLoop.enters
       => /\ mainLoop'.lastTradeTime = mainLoop'.lastEnter
          /\ mainLoop.lastEnter # -1
             => mainLoop'.currentTime - mainLoop.lastEnter >= minTimeBetweenTrades
    /\ mainLoop'.failures > mainLoop.failures
       => mainLoop'.lastTradeTime = mainLoop.lastTradeTime
C36_MinTimeBetweenTrades == [][C36_Step]_vars

\* C37: JupiterService.initialize() sets initialized when the venue answers the test
\* quote and the wallet manager has been initialized (its initialize was called last,
\* with a valid key, an endpoint and the RPC answering); while initialized is not set,
\* getBestRoute, getSwapTransaction, executeSwap and getTokenPrice fail as not
\* initialized, and once it is set they do not.
C37_Step ==
    /\ (JupiterInitialize(TRUE) /\ services.called = "WalletManager.initialize"
          /\ services.res \notin {"InvalidKey", "NoEndpoint", "RpcFailed"})
       => services'.jupiterInitialized
    /\ \A answers \in BOOLEAN :
          \A method \in {"getBestRoute", "getSwapTransaction", "executeSwap",
                          "getTokenPrice"} :
             JupiterCall(method, answers)
             => (services'.res = "Jupiter service not initialized"
                    <=> ~services.jupiterInitialized)
C37_VenueInitialized == [][C37_Step]_vars

\* C38: WalletManager.initialize with a valid key, an endpoint and the RPC answering sets
\* initialized; getBalance, getPublicKey, signTransaction and sendTransaction fail with
\* 'Wallet not initialized' exactly while no call of initialize has succeeded.
C38_Step ==
    /\ WalletInitialize(TRUE, TRUE, TRUE) => services'.walletInitialized
    /\ \A reachable \in BOOLEAN :
          \A method \in {"getBalance", "getPublicKey", "signTransaction",
                          "sendTransaction"} :
             WalletCall(method, reachable)
             => (services'.res = "Wallet not initialized" <=> ~services.walletInitialized)
C38_WalletInitialized == [][C38_Step]_vars
====
